---- MODULE Spec2Model ----
(***************************************************************************)
(* A model of the pysheets client engine: the network trampoline           *)
(* (static/api.py), the edit history with its debounced autosave           *)
(* (static/history.py) and the menu / shortcut part of the widget toolkit  *)
(* (static/ltk/widgets.py).  Text is modelled as sequences of one          *)
(* character strings so that prefixes, percent-encoding and upper-casing   *)
(* are computed, not assumed.                                              *)
(***************************************************************************)
EXTENDS Integers, Sequences, FiniteSets, TLC

VARIABLES
    now,            \* time.time(), in whole seconds
    network_cache,  \* api.network_cache: request URL -> [when, value]
    requests,       \* every XMLHttpRequest sent so far, in order (request URLs)
    netCall,        \* what the latest load_with_trampoline call did and returned
    history,        \* history.history: the edit log
    timers,         \* the scheduler's pending tasks
    saves,          \* number of storage.save calls so far
    unsaved,        \* ids of the edits added since the last storage.save
    console,        \* state.console's entry for the "Sheet" channel
    hop,            \* what the latest history operation or scheduler task did
    shortcuts,      \* widgets.shortcuts: shortcut text -> MenuItem
    items,          \* the MenuItems constructed so far
    display,        \* css display of each menu's popup
    openClass,      \* menus whose popup carries the class ltk-menupopup-open
    menuEvent,      \* what the latest DOM event or constructor call did
    pane,           \* the SplitPane: ratio, sizes of its panes, its divider
    localStorage,   \* window.localStorage: key -> stored text
    paneOp,         \* what the latest SplitPane operation did
    tour,           \* the Tutorial: steps, index, overlay, listeners
    tourOp,         \* what the latest Tutorial operation did
    calc,           \* the latest call of a pure function and its result
    page            \* the sheet inventory page: #main, message, location

vars == <<now, network_cache, requests, netCall, history, timers, saves,
          unsaved, console, hop, shortcuts, items, display, openClass,
          menuEvent, pane, localStorage, paneOp, tour, tourOp, calc, page>>

netVars  == <<now, network_cache, requests, netCall>>
histVars == <<history, saves, unsaved, console, hop>>
menuVars == <<shortcuts, items, display, openClass, menuEvent>>
paneVars == <<pane, localStorage, paneOp>>
tourVars == <<tour, tourOp>>
widgetVars == <<paneVars, tourVars, calc, page>>

(***************************************************************************)
(* Bounds of the model.                                                    *)
(***************************************************************************)
MaxTime   == 120    \* the clock runs from 0 to MaxTime seconds
MaxCalls  == 3      \* load_with_trampoline calls in one behaviour

(***************************************************************************)
(* Text helpers.                                                           *)
(***************************************************************************)
RECURSIVE Flatten(_)
Flatten(ss) == IF ss = <<>> THEN <<>> ELSE Head(ss) \o Flatten(Tail(ss))

StartsWith(s, p) == Len(s) >= Len(p) /\ SubSeq(s, 1, Len(p)) = p

(***************************************************************************)
(* The network trampoline, src/src/static/api.py.                          *)
(***************************************************************************)
TTL == 60
HTTP_OK == 200

\* window.encodeURIComponent: every character outside the unreserved set
\* A-Z a-z 0-9 - _ . ! ~ * ' ( ) becomes % and the two hex digits of its code.
Reserved == {"/", ":", "?", "=", "%", "+", " ", "&", "#"}
PercentCode(c) ==
    CASE c = "/" -> <<"%", "2", "F">>
      [] c = ":" -> <<"%", "3", "A">>
      [] c = "?" -> <<"%", "3", "F">>
      [] c = "=" -> <<"%", "3", "D">>
      [] c = "%" -> <<"%", "2", "5">>
      [] c = "+" -> <<"%", "2", "B">>
      [] c = " " -> <<"%", "2", "0">>
      [] c = "&" -> <<"%", "2", "6">>
      [] c = "#" -> <<"%", "2", "3">>
encodeURIComponent(url) ==
    Flatten([i \in 1..Len(url) |->
                IF url[i] \in Reserved THEN PercentCode(url[i]) ELSE <<url[i]>>])

LoadPrefix == <<"/", "l", "o", "a", "d", "?", "u", "r", "l", "=">>

\* A plausible slip: the external URL is pasted into the proxy path unencoded.
RequestUrlRaw(url) ==
    IF url # <<>> /\ url[1] # "/" THEN LoadPrefix \o url ELSE url

\* load_with_trampoline, the rewrite of the input URL into the request URL.
RequestUrl(url) ==
    IF url # <<>> /\ url[1] # "/"
    THEN LoadPrefix \o encodeURIComponent(url)
    ELSE url

\* The origin the browser sends xhr.open("GET", url) to: a URL with a scheme,
\* or a protocol-relative one ("//host/..."), names its own host; anything
\* else resolves against the page and stays on the page's origin.
HasScheme(url) ==
    \E i \in 1..Len(url) :
        /\ url[i] = ":"
        /\ i > 1
        /\ \A j \in 1..(i-1) : url[j] \notin Reserved
SameOrigin(url) == ~StartsWith(url, <<"/", "/">>) /\ ~HasScheme(url)

\* base64.b64decode on the alphabet and "=" padding: groups of four characters
\* give three bytes, less one per padding character; ok is FALSE where Python
\* raises binascii.Error (incorrect padding).
B64Alphabet ==
    <<"A","B","C","D","E","F","G","H","I","J","K","L","M","N","O","P",
      "Q","R","S","T","U","V","W","X","Y","Z","a","b","c","d","e","f",
      "g","h","i","j","k","l","m","n","o","p","q","r","s","t","u","v",
      "w","x","y","z","0","1","2","3","4","5","6","7","8","9","+","/">>
B64Index(c) == (CHOOSE i \in 1..64 : B64Alphabet[i] = c) - 1
B64Group(g) ==
    LET pad  == Cardinality({i \in 1..4 : g[i] = "="})
        v(i) == IF g[i] = "=" THEN 0 ELSE B64Index(g[i])
        bits == ((v(1) * 64 + v(2)) * 64 + v(3)) * 64 + v(4)
        b3   == <<bits \div 65536, (bits \div 256) % 256, bits % 256>>
    IN  SubSeq(b3, 1, 3 - pad)
RECURSIVE B64Bytes(_)
B64Bytes(s) ==
    IF s = <<>> THEN <<>>
    ELSE B64Group(SubSeq(s, 1, 4)) \o B64Bytes(SubSeq(s, 5, Len(s)))
b64decode(s) ==
    IF Len(s) % 4 # 0 THEN [ok |-> FALSE, bytes |-> <<>>]
    ELSE [ok |-> TRUE, bytes |-> B64Bytes(s)]

\* The cache test of get(): an entry exists and is younger than 60 seconds.
FreshInclusive(cache, url, t) ==
    url \in DOMAIN cache /\ t - cache[url].when <= TTL
Fresh(cache, url, t) ==
    url \in DOMAIN cache /\ t - cache[url].when < TTL

Put(cache, url, entry) ==
    [u \in DOMAIN cache \cup {url} |-> IF u = url THEN entry ELSE cache[u]]

\* A plausible slip: the response is cached before the status is looked at.
GetCachesErrors(cache, url, t, status, body) ==
    IF Fresh(cache, url, t)
    THEN [issued |-> FALSE, outcome |-> "ok", value |-> cache[url].value,
          errStatus |-> 0, errUrl |-> <<>>, cache |-> cache]
    ELSE IF status # HTTP_OK
    THEN [issued |-> TRUE, outcome |-> "IOError", value |-> <<>>,
          errStatus |-> status, errUrl |-> url,
          cache |-> Put(cache, url, [when |-> t, value |-> body])]
    ELSE [issued |-> TRUE, outcome |-> "ok", value |-> body,
          errStatus |-> 0, errUrl |-> <<>>,
          cache |-> Put(cache, url, [when |-> t, value |-> body])]

\* load_with_trampoline.get: the server answers an issued request with
\* (status, body).
Get(cache, url, t, status, body) ==
    IF Fresh(cache, url, t)
    THEN [issued |-> FALSE, outcome |-> "ok", value |-> cache[url].value,
          errStatus |-> 0, errUrl |-> <<>>, cache |-> cache]
    ELSE IF status # HTTP_OK
    THEN [issued |-> TRUE, outcome |-> "IOError", value |-> <<>>,
          errStatus |-> status, errUrl |-> url, cache |-> cache]
    ELSE [issued |-> TRUE, outcome |-> "ok", value |-> body,
          errStatus |-> 0, errUrl |-> <<>>,
          cache |-> Put(cache, url, [when |-> t, value |-> body])]

\* The inputs of the model: the empty URL, a site path, a protocol-relative
\* URL and an absolute URL; the base64 bodies of "a" and "b"; the statuses a
\* server answers with.
InputUrls == { <<>>, <<"/", "d">>, <<"/", "/", "e">>, <<"h", ":", "e">> }
Bodies    == { <<"Y", "Q", "=", "=">>, <<"Y", "g", "=", "=">> }
Statuses  == { 200, 404 }
NoCall    == [n |-> 0, at |-> 0, input |-> <<>>, url |-> <<>>, issued |-> FALSE,
              status |-> 0, outcome |-> "none", value |-> <<>>, body |-> <<>>,
              errStatus |-> 0, errUrl |-> <<>>]

\* load_with_trampoline(url), one whole call.
LoadWithTrampoline(input, status, body) ==
    LET url == RequestUrl(input)
        r   == Get(network_cache, url, now, status, body)
        dec == IF r.outcome = "ok" THEN b64decode(r.value)
               ELSE [ok |-> TRUE, bytes |-> <<>>]
    IN  /\ netCall.n < MaxCalls
        /\ network_cache' = r.cache
        /\ requests' = IF r.issued THEN Append(requests, url) ELSE requests
        /\ netCall' = [n |-> netCall.n + 1, at |-> now, input |-> input, url |-> url,
                       issued |-> r.issued,
                       status |-> IF r.issued THEN status ELSE 0,
                       outcome |-> IF dec.ok THEN r.outcome ELSE "DecodeError",
                       value |-> dec.bytes,
                       body |-> r.value,
                       errStatus |-> r.errStatus, errUrl |-> r.errUrl]
        /\ now' = now

Load ==
    /\ \E input \in InputUrls, status \in Statuses, body \in Bodies :
          LoadWithTrampoline(input, status, body)
    /\ UNCHANGED <<histVars, timers, menuVars, widgetVars>>

\* Time passes.  The clock is observed one second before and at every
\* multiple of the cache lifetime, which gives entries every age next to it.
Advance ==
    /\ LET d == IF now % TTL = 0 THEN TTL - 1 ELSE TTL - (now % TTL)
       IN  now + d <= MaxTime /\ now' = now + d
    /\ UNCHANGED <<network_cache, requests, netCall, histVars, timers,
                   menuVars, widgetVars>>

(***************************************************************************)
(* The cooperative scheduler, ltk.schedule(function, key, delay): a task   *)
(* scheduled under a key that is already pending replaces the pending      *)
(* task.  A pending task runs at some later tick; the delays (0 s for the  *)
(* flush, 0.3 s for the status line) only order ticks and are not counted. *)
(***************************************************************************)
Task(func, key, arg) == [key |-> key, func |-> func, arg |-> arg]
Schedule(ts, func, key, arg) ==
    Append(SelectSeq(ts, LAMBDA t : t.key # key), Task(func, key, arg))
Pending(ts, func) == {i \in 1..Len(ts) : ts[i].func = func}
Without(ts, i) == SubSeq(ts, 1, i - 1) \o SubSeq(ts, i + 1, Len(ts))

(***************************************************************************)
(* Edit history and autosave, src/static/history.py.                       *)
(***************************************************************************)
MaxEdits == 3       \* add(edit) calls in one behaviour
MaxUndos == 1       \* undo(sheet) calls in one behaviour

\* An edit: its identity, whether it is one of models.USER_EDITS, and what
\* its own undo(sheet) reports.
Edit(id, user, ok) == [id |-> id, user |-> user, ok |-> ok]
Ids(h) == {h[i].id : i \in 1..Len(h)}

\* A plausible slip: the flush timer is set without the scheduler's key.
ScheduleFlushUnkeyed(ts) == Append(ts, Task("flush", "flush events", 0))

\* schedule_flush()
ScheduleFlush(ts) == Schedule(ts, "flush", "flush events", 0)

\* A plausible slip: only user edits schedule the flush.
AddSchedulesUserOnly(edit) == IF edit.user THEN 1 ELSE 0

\* add(edit): the number of schedule_flush calls it makes, one for any edit.
AddSchedules(edit) == 1

\* add(edit), its status message: "Saving..." for user edits only.
AddConsole(c, edit) == IF edit.user THEN "saving" ELSE c

\* A plausible slip: flush() saves and schedules no status message.
FlushTimersSilent(ts) == ts

\* flush(), after storage.save: the status message is scheduled.
FlushTimers(ts) == Schedule(ts, "show_status", "show status", 0)

\* show_status(): writes only while the console has a "Sheet" entry.
ShowStatusConsole(c) == IF c # "absent" THEN "saved" ELSE c

\* A plausible slip: classic single-step undo, the last edit only.
UndoLoopLastOnly(h, called) ==
    IF h = <<>> THEN [history |-> h, called |-> called, scheduled |-> 0]
    ELSE [history |-> SubSeq(h, 1, Len(h) - 1),
          called |-> Append(called, h[Len(h)].id),
          scheduled |-> IF h[Len(h)].ok THEN 1 ELSE 0]

\* A plausible slip: the flush is scheduled after the loop, success or not.
RECURSIVE UndoLoopAlwaysFlush(_, _)
UndoLoopAlwaysFlush(h, called) ==
    IF h = <<>> THEN [history |-> h, called |-> called, scheduled |-> 1]
    ELSE LET edit == h[Len(h)]
             rest == SubSeq(h, 1, Len(h) - 1)
         IN  IF edit.ok
             THEN [history |-> rest, called |-> Append(called, edit.id),
                   scheduled |-> 1]
             ELSE UndoLoopAlwaysFlush(rest, Append(called, edit.id))

\* undo(sheet), the loop: pop, call the edit's undo, stop at the first success.
\* called lists the edits whose undo ran, scheduled counts schedule_flush calls.
RECURSIVE UndoLoop(_, _)
UndoLoop(h, called) ==
    IF h = <<>> THEN [history |-> h, called |-> called, scheduled |-> 0]
    ELSE LET edit == h[Len(h)]
             rest == SubSeq(h, 1, Len(h) - 1)
         IN  IF edit.ok
             THEN [history |-> rest, called |-> Append(called, edit.id),
                   scheduled |-> 1]
             ELSE UndoLoop(rest, Append(called, edit.id))

RECURSIVE Times(_, _)
Times(ts, n) == IF n = 0 THEN ts ELSE Times(ScheduleFlush(ts), n - 1)

NoOp == [op |-> "none", adds |-> 0, undos |-> 0, called |-> <<>>,
         scheduled |-> 0, wrote |-> "", batch |-> 0, statusDue |-> FALSE,
         undosOk |-> TRUE]

\* add(edit)
Add ==
    /\ hop.adds < MaxEdits
    /\ \E user \in BOOLEAN, ok \in BOOLEAN :
          LET edit == Edit(hop.adds + 1, user, ok)
              k    == AddSchedules(edit)
          IN  /\ history' = Append(history, edit)
              /\ console' = AddConsole(console, edit)
              /\ timers' = Times(timers, k)
              /\ unsaved' = unsaved \cup {edit.id}
              /\ hop' = [hop EXCEPT !.op = "add", !.adds = @ + 1,
                           !.called = <<>>, !.scheduled = k,
                           !.wrote = IF edit.user THEN "saving" ELSE "",
                           !.batch = @ + k]
    /\ UNCHANGED <<saves, netVars, menuVars, widgetVars>>

\* undo(sheet)
Undo ==
    /\ hop.undos < MaxUndos
    /\ LET r == UndoLoop(history, <<>>) IN
          /\ history' = r.history
          /\ timers' = Times(timers, r.scheduled)
          /\ hop' = [hop EXCEPT !.op = "undo", !.undos = @ + 1,
                       !.called = r.called, !.scheduled = r.scheduled,
                       !.wrote = "", !.batch = @ + r.scheduled,
                       !.undosOk = @ /\ r.scheduled > 0]
    /\ UNCHANGED <<saves, unsaved, console, netVars, menuVars, widgetVars>>

\* The scheduler runs the pending flush(): storage.save(state.SHEET), then
\* the status message is scheduled.
RunFlush ==
    /\ \E i \in Pending(timers, "flush") :
          timers' = FlushTimers(Without(timers, i))
    /\ saves' = saves + 1
    /\ unsaved' = {}
    /\ hop' = [hop EXCEPT !.op = "flush", !.called = <<>>, !.scheduled = 0,
                 !.wrote = "", !.batch = 0, !.statusDue = TRUE]
    /\ UNCHANGED <<history, console, netVars, menuVars, widgetVars>>

\* The scheduler runs the pending show_status().
RunShowStatus ==
    /\ \E i \in Pending(timers, "show_status") : timers' = Without(timers, i)
    /\ console' = ShowStatusConsole(console)
    /\ hop' = [hop EXCEPT !.op = "show_status", !.called = <<>>,
                 !.scheduled = 0,
                 !.wrote = IF console # "absent" THEN "saved" ELSE "",
                 !.statusDue = FALSE]
    /\ UNCHANGED <<history, saves, unsaved, netVars, menuVars, widgetVars>>

\* The rest of the application: the "Sheet" channel of state.console is
\* opened (some other message is written to it) or removed.
ConsoleChange ==
    /\ \E c \in {"absent", "other"} : c # console /\ console' = c
    /\ hop' = [hop EXCEPT !.op = "console", !.called = <<>>, !.scheduled = 0,
                 !.wrote = ""]
    /\ UNCHANGED <<history, timers, saves, unsaved, netVars, menuVars, widgetVars>>

(***************************************************************************)
(* Menus, popups and keyboard shortcuts, src/src/static/ltk/widgets.py.    *)
(***************************************************************************)
NumMenus == 2       \* Menu widgets in the menu bar
MaxItems == 2       \* MenuItems constructed in one behaviour
Menus == 1..NumMenus

Cmd  == <<"C", "m", "d", "+">>
BROWSER_SHORTCUTS == { Cmd \o <<"N">>, Cmd \o <<"T">>, Cmd \o <<"W">>,
                       Cmd \o <<"Q">> }

\* str.upper(), letter by letter.
LowerLetters == <<"a","b","c","d","e","f","g","h","i","j","k","l","m",
                  "n","o","p","q","r","s","t","u","v","w","x","y","z">>
UpperLetters == <<"A","B","C","D","E","F","G","H","I","J","K","L","M",
                  "N","O","P","Q","R","S","T","U","V","W","X","Y","Z">>
UpperChar(c) ==
    IF \E i \in 1..26 : LowerLetters[i] = c
    THEN UpperLetters[CHOOSE i \in 1..26 : LowerLetters[i] = c]
    ELSE c
Upper(s) == [i \in 1..Len(s) |-> UpperChar(s[i])]

\* A plausible slip: the shortcut is registered before the reserved ones are
\* rejected.
RegisterThenCheck(reg, shortcut, item) ==
    [error |-> shortcut \in BROWSER_SHORTCUTS,
     shortcuts |-> IF shortcut # <<>> THEN Put(reg, shortcut, item) ELSE reg]

\* MenuItem.__init__, the shortcut part: a reserved shortcut raises
\* ValueError, any other non-empty shortcut is registered to the new item.
Register(reg, shortcut, item) ==
    IF shortcut \in BROWSER_SHORTCUTS
    THEN [error |-> TRUE, shortcuts |-> reg]
    ELSE [error |-> FALSE,
          shortcuts |-> IF shortcut # <<>> THEN Put(reg, shortcut, item)
                        ELSE reg]

\* A plausible slip: the key is used as typed.
ShortcutOfAsTyped(ev) ==
    IF ~ev.hasKey THEN <<>>
    ELSE (IF ev.metaKey THEN Cmd ELSE <<>>) \o ev.key

\* handle_keydown, the shortcut text of a keydown event; an event without a
\* key raises inside the try and gives the empty text.
ShortcutOf(ev) ==
    IF ~ev.hasKey THEN <<>>
    ELSE (IF ev.metaKey THEN Cmd ELSE <<>>) \o Upper(ev.key)

\* _close_all_menus(): the class ltk-menupopup-open is removed and every
\* popup is hidden.
\* A plausible slip: _close_all_menus leaves the popups as they are.
HiddenNothing(d) == d

Hidden(d) == [m \in DOMAIN d |-> "none"]

\* A plausible slip: the swap is made whether or not a popup is open.
ReplacesOtherAlways(open) == TRUE

\* Menu.replace_other, its test: some element carries ltk-menupopup-open.
ReplacesOther(open) == open # {}

\* The inputs of the model: shortcut texts given to MenuItem (none, the four
\* reserved ones, Cmd+K, a bare K, and Cmd+k in lower case) and keydown events.
ShortcutInputs == BROWSER_SHORTCUTS \cup
    { <<>>, Cmd \o <<"K">>, <<"K">>, Cmd \o <<"k">> }
KeyEvents ==
    [metaKey : BOOLEAN, hasKey : {TRUE}, key : {<<"k">>, <<"K">>, <<"n">>}]
    \cup [metaKey : BOOLEAN, hasKey : {FALSE}, key : {<<>>}]
NoEvent == [type |-> "none", menu |-> 0, item |-> 0, shortcut |-> <<>>,
            key |-> <<>>, metaKey |-> FALSE, hasKey |-> FALSE,
            prevented |-> FALSE, selected |-> <<>>, error |-> FALSE]

\* MenuItem(icon, label, shortcut, selected)
NewMenuItem ==
    /\ Cardinality(items) < MaxItems
    /\ \E shortcut \in ShortcutInputs :
          LET id == Cardinality(items) + 1
              r  == Register(shortcuts, shortcut, id)
          IN  /\ shortcuts' = r.shortcuts
              /\ items' = IF r.error THEN items ELSE items \cup {id}
              /\ menuEvent' = [NoEvent EXCEPT !.type = "new_item", !.item = id,
                                 !.shortcut = shortcut, !.error = r.error]
    /\ UNCHANGED <<display, openClass, timers, netVars, histVars, widgetVars>>

\* A keydown event on the document: handle_keydown, and MenuItem.select of
\* the item that owns the shortcut.
KeyDown ==
    /\ \E ev \in KeyEvents :
          LET sc == ShortcutOf(ev) IN
          IF sc \in DOMAIN shortcuts
          THEN /\ openClass' = {}
               /\ display' = Hidden(display)
               /\ menuEvent' = [NoEvent EXCEPT !.type = "keydown",
                                  !.shortcut = sc, !.key = ev.key,
                                  !.metaKey = ev.metaKey, !.hasKey = ev.hasKey,
                                  !.prevented = TRUE, !.item = shortcuts[sc],
                                  !.selected = <<shortcuts[sc]>>]
          ELSE /\ UNCHANGED <<openClass, display>>
               /\ menuEvent' = [NoEvent EXCEPT !.type = "keydown",
                                  !.shortcut = sc, !.key = ev.key,
                                  !.metaKey = ev.metaKey, !.hasKey = ev.hasKey]
    /\ UNCHANGED <<shortcuts, items, timers, netVars, histVars, widgetVars>>

\* Menu.show(event), then Popup.show(element): every popup is closed and this
\* menu's popup is scheduled to become visible.
MenuShow(m) ==
    /\ openClass' = {}
    /\ display' = Hidden(display)
    /\ timers' = Schedule(timers, "popup_block", "ltk-menupopup", m)

\* A click on a menu's label: Menu.show; the click then reaches the body
\* handler, which returns at once because the target is a menu label.
ClickLabel ==
    /\ \E m \in Menus :
          /\ MenuShow(m)
          /\ menuEvent' = [NoEvent EXCEPT !.type = "click_label", !.menu = m,
                             !.prevented = TRUE]
    /\ UNCHANGED <<shortcuts, items, netVars, histVars, widgetVars>>

\* The pointer enters a menu: Menu.replace_other.
MouseEnter ==
    /\ \E m \in Menus :
          /\ IF ReplacesOther(openClass)
             THEN MenuShow(m)
             ELSE UNCHANGED <<openClass, display, timers>>
          /\ menuEvent' = [NoEvent EXCEPT !.type = "mouseenter", !.menu = m,
                             !.prevented = ReplacesOther(openClass)]
    /\ UNCHANGED <<shortcuts, items, netVars, histVars, widgetVars>>

\* A click on a MenuItem: MenuItem.select, and the body handler after it.
ClickItem ==
    /\ \E i \in items :
          menuEvent' = [NoEvent EXCEPT !.type = "click_item", !.item = i,
                          !.prevented = TRUE, !.selected = <<i>>]
    /\ openClass' = {}
    /\ display' = Hidden(display)
    /\ UNCHANGED <<shortcuts, items, timers, netVars, histVars, widgetVars>>

\* A click anywhere else in the body: _close_all_menus(event).
BodyClick ==
    /\ openClass' = {}
    /\ display' = Hidden(display)
    /\ menuEvent' = [NoEvent EXCEPT !.type = "click_body"]
    /\ UNCHANGED <<shortcuts, items, timers, netVars, histVars, widgetVars>>

\* Popup.close()
PopupClose ==
    /\ \E m \in Menus :
          /\ display' = [display EXCEPT ![m] = "none"]
          /\ menuEvent' = [NoEvent EXCEPT !.type = "close", !.menu = m]
    /\ UNCHANGED <<shortcuts, items, openClass, timers, netVars, histVars,
                   widgetVars>>

\* The scheduler runs the task Popup.show left: the popup becomes visible.
RunPopupShow ==
    /\ \E i \in Pending(timers, "popup_block") :
          /\ timers' = Without(timers, i)
          /\ display' = [display EXCEPT ![timers[i].arg] = "block"]
          /\ menuEvent' = [NoEvent EXCEPT !.type = "tick",
                             !.menu = timers[i].arg]
    /\ UNCHANGED <<shortcuts, items, openClass, netVars, histVars, widgetVars>>

(***************************************************************************)
(* Numbers and their text.  A Python float is modelled as the exact        *)
(* fraction [n, d] in lowest terms with d > 0 (no rounding); a text is a   *)
(* sequence of one-character strings.                                      *)
(***************************************************************************)
RECURSIVE GCD(_, _)
GCD(a, b) == IF b = 0 THEN a ELSE GCD(b, a % b)
Abs(x) == IF x < 0 THEN -x ELSE x
Q(n, d) ==
    LET g == GCD(Abs(n), Abs(d))
        s == IF d < 0 THEN -1 ELSE 1
    IN  [n |-> (s * n) \div g, d |-> (s * d) \div g]
Float(i) == [n |-> i, d |-> 1]
QAdd(a, b) == Q(a.n * b.d + b.n * a.d, a.d * b.d)
QSub(a, b) == Q(a.n * b.d - b.n * a.d, a.d * b.d)
QMul(a, b) == Q(a.n * b.n, a.d * b.d)
QDiv(a, b) == Q(a.n * b.d, a.d * b.n)
QLe(a, b) == a.n * b.d <= b.n * a.d

DigitChars == <<"0", "1", "2", "3", "4", "5", "6", "7", "8", "9">>
IsDigit(c) == \E i \in 1..10 : DigitChars[i] = c
DigitVal(c) == (CHOOSE i \in 1..10 : DigitChars[i] = c) - 1

\* str(n) of an integer n >= 0
RECURSIVE IntText(_)
IntText(n) ==
    IF n < 10 THEN <<DigitChars[n + 1]>>
    ELSE IntText(n \div 10) \o <<DigitChars[(n % 10) + 1]>>

\* the number a text of decimal digits denotes: acc = acc * 10 + int(c)
RECURSIVE DigitsVal(_)
DigitsVal(ds) ==
    IF ds = <<>> THEN 0
    ELSE DigitsVal(SubSeq(ds, 1, Len(ds) - 1)) * 10 + DigitVal(ds[Len(ds)])

RECURSIVE Pow10(_)
Pow10(k) == IF k = 0 THEN 1 ELSE 10 * Pow10(k - 1)

\* str.strip() for blanks
RECURSIVE Strip(_)
Strip(t) ==
    IF t = <<>> THEN t
    ELSE IF Head(t) = " " THEN Strip(Tail(t))
    ELSE IF t[Len(t)] = " " THEN Strip(SubSeq(t, 1, Len(t) - 1))
    ELSE t

\* f"{x}" of a float with a finite decimal expansion: sign, integer part,
\* point, and the digits after it ("0" when there are none).
FormatFloat(q) ==
    LET a == Abs(q.n)
        RECURSIVE Frac(_)
        Frac(r) == IF r = 0 THEN <<>>
                   ELSE <<DigitChars[((r * 10) \div q.d) + 1]>>
                        \o Frac((r * 10) % q.d)
        fr == Frac(a % q.d)
    IN  (IF q.n < 0 THEN <<"-">> ELSE <<>>) \o IntText(a \div q.d) \o <<".">>
        \o (IF fr = <<>> THEN <<"0">> ELSE fr)

\* float(text) for plain decimal notation: blanks around it, a sign, digits
\* with at most one point and at least one digit; anything else is an error.
ParseFloat(text) ==
    LET t == Strip(text)
        signed == t # <<>> /\ Head(t) \in {"+", "-"}
        body == IF signed THEN Tail(t) ELSE t
        dots == {i \in 1..Len(body) : body[i] = "."}
        cut == IF dots = {} THEN Len(body) + 1 ELSE CHOOSE i \in dots : TRUE
        ip == SubSeq(body, 1, cut - 1)
        fp == SubSeq(body, cut + 1, Len(body))
        ok == /\ Cardinality(dots) <= 1
              /\ Len(ip) + Len(fp) >= 1
              /\ \A i \in 1..Len(body) : i \in dots \/ IsDigit(body[i])
        sgn == IF signed /\ Head(t) = "-" THEN -1 ELSE 1
    IN  [ok |-> ok,
         val |-> IF ok THEN Q(sgn * DigitsVal(ip \o fp), Pow10(Len(fp)))
                 ELSE Float(0)]

(***************************************************************************)
(* SplitPane, src/src/static/ltk/widgets.py.  The panes and the divider    *)
(* lie side by side in the container: with its offset at 0 the divider     *)
(* sits where the first pane ends, and a drag moves it by its offset.      *)
(***************************************************************************)
MaxPaneOps == 2     \* SplitPane operations after the construction

PaneKeys == { <<"a">>, <<"b">> }
ContainerWidths == {0, 100}
DividerWidths == {0, 4}
DropPositions == {-10, 0, 50, 120}
StoredInputs ==
    { <<" ","0",".","3">>, <<"2">>, <<"-","1">>, <<"a","b","c">>, <<>> }

\* window.localStorage.getItem and setItem
GetItem(st, key) ==
    IF key \in DOMAIN st THEN [present |-> TRUE, text |-> st[key]]
    ELSE [present |-> FALSE, text |-> <<>>]
SetItem(st, key, text) ==
    [k \in DOMAIN st \cup {key} |-> IF k = key THEN text ELSE st[k]]

DefaultRatio == Q(1, 2)

\* restore(), the ratio it sets: float(getItem(key)), 0.5 on any error
\* (float(None) is one).
Restore(stored) ==
    IF stored.present /\ ParseFloat(stored.text).ok
    THEN ParseFloat(stored.text).val
    ELSE DefaultRatio

\* get_size(x): max(1, x.width()) or max(1, x.height())
GetSize(w) == IF w > 1 THEN w ELSE 1

\* A plausible slip: the divider is left out of the first pane's size.
LayoutFirstNoDivider(ratio, size, middle) == QMul(ratio, Float(size))

\* layout(), the sizes handed to set_size
LayoutFirst(ratio, size, middle) ==
    QAdd(QMul(ratio, Float(size)), Float(middle))
LayoutLast(ratio, size, middle) ==
    QSub(QMul(QSub(Float(1), ratio), Float(size)), Float(middle))

\* The size an element takes when set_size is given a number: a negative
\* one counts as 0.
Rendered(size) == IF QLe(size, Float(0)) THEN Float(0) ELSE size

\* get_position(self.middle) - get_position(self)
DividerPosition(p) == QAdd(Rendered(p.first), p.left)

\* A plausible slip: the ratio is the share of the last pane.
ResizeRatioOfLast(position, size) ==
    QSub(Float(1), QDiv(position, Float(size)))

\* resize(), the ratio it sets
ResizeRatio(position, size) == QDiv(position, Float(size))

\* self.key = f"split-{key}"
SplitKey(key) == <<"s", "p", "l", "i", "t", "-">> \o key

\* layout(): both pane sizes, the divider's offset, and the stored ratio
LayoutPane(p) ==
    LET size == GetSize(p.width)
        middle == GetSize(p.divider)
    IN  [p EXCEPT !.first = LayoutFirst(p.ratio, size, middle),
                  !.last = LayoutLast(p.ratio, size, middle),
                  !.left = Float(0)]
Persist(p, st) == SetItem(st, p.key, FormatFloat(p.ratio))

NoPane == [built |-> FALSE, key |-> <<>>, width |-> 0, divider |-> 0,
           ratio |-> Float(0), first |-> Float(0), last |-> Float(0),
           left |-> Float(0)]
NoPaneOp == [op |-> "none", prev |-> "none", n |-> 0, before |-> NoPane,
             stored |-> [present |-> FALSE, text |-> <<>>],
             position |-> Float(0)]
PaneOp(op) == [NoPaneOp EXCEPT !.op = op, !.prev = paneOp.op,
                               !.n = paneOp.n + 1, !.before = pane]

\* Another script, tab or session writes the entry of a pane: once before
\* the pane is constructed, or later under the pane's key.
StorageSet ==
    /\ IF pane.built THEN paneOp.n < MaxPaneOps ELSE localStorage = <<>>
    /\ \E key \in PaneKeys, text \in StoredInputs :
          /\ pane.built => pane.key = SplitKey(key)
          /\ localStorage' = SetItem(localStorage, SplitKey(key), text)
    /\ paneOp' = [NoPaneOp EXCEPT !.op = "storage",
                    !.n = IF pane.built THEN paneOp.n + 1 ELSE 0]
    /\ UNCHANGED <<pane, timers, netVars, histVars, menuVars, page, tourVars, calc>>

\* SplitPane(first, last, key): restore(), layout(), and a layout scheduled
\* under the key "layout-split-<key>".
NewSplitPane ==
    /\ ~pane.built
    /\ \E key \in PaneKeys, w \in ContainerWidths, d \in DividerWidths :
          LET stored == GetItem(localStorage, SplitKey(key))
              p == LayoutPane(LayoutPane(
                     [NoPane EXCEPT !.built = TRUE, !.key = SplitKey(key),
                                    !.width = w, !.divider = d,
                                    !.ratio = Restore(stored)]))
          IN  /\ pane' = p
              /\ localStorage' = Persist(p, localStorage)
              /\ timers' = Schedule(timers, "layout", "layout-split", p.key)
              /\ paneOp' = [NoPaneOp EXCEPT !.op = "new", !.stored = stored]
    /\ UNCHANGED <<netVars, histVars, menuVars, page, tourVars, calc>>

\* restore()
PaneRestore ==
    /\ pane.built /\ paneOp.n < MaxPaneOps
    /\ LET stored == GetItem(localStorage, pane.key)
           p == LayoutPane([pane EXCEPT !.ratio = Restore(stored)])
       IN  /\ pane' = p
           /\ localStorage' = Persist(p, localStorage)
           /\ paneOp' = [PaneOp("restore") EXCEPT !.stored = stored]
    /\ UNCHANGED <<timers, netVars, histVars, menuVars, page, tourVars, calc>>

\* The window is resized, so that the container measures w: layout().
WindowResize ==
    /\ pane.built /\ paneOp.n < MaxPaneOps
    /\ \E w \in ContainerWidths :
          LET p == LayoutPane([pane EXCEPT !.width = w])
          IN  /\ pane' = p
              /\ localStorage' = Persist(p, localStorage)
              /\ paneOp' = [PaneOp("layout") EXCEPT !.before.width = w]
    /\ UNCHANGED <<timers, netVars, histVars, menuVars, page, tourVars, calc>>

\* The scheduler runs the layout the constructor left.
RunLayout ==
    /\ pane.built
    /\ \E i \in Pending(timers, "layout") :
          /\ timers' = Without(timers, i)
          /\ pane' = LayoutPane(pane)
          /\ localStorage' = Persist(pane, localStorage)
          /\ paneOp' = [PaneOp("layout") EXCEPT !.n = paneOp.n]
    /\ UNCHANGED <<netVars, histVars, menuVars, page, tourVars, calc>>

\* The divider is dragged: the draggable moves it to a position, measured
\* from the container's start.
DragMove ==
    /\ pane.built /\ paneOp.n < MaxPaneOps
    /\ pane.left = Float(0)
    /\ \E pos \in DropPositions :
          pane' = [pane EXCEPT !.left = QSub(Float(pos), Rendered(pane.first))]
    /\ paneOp' = [NoPaneOp EXCEPT !.op = "drag", !.n = paneOp.n]
    /\ UNCHANGED <<localStorage, timers, netVars, histVars, menuVars, page,
                   tourVars, calc>>

\* The draggable's stop handler: resize().
DragStop ==
    /\ pane.built /\ paneOp.n < MaxPaneOps
    /\ LET position == DividerPosition(pane)
           p == LayoutPane([pane EXCEPT
                   !.ratio = ResizeRatio(position, GetSize(pane.width))])
       IN  /\ pane' = p
           /\ localStorage' = Persist(p, localStorage)
           /\ paneOp' = [PaneOp("resize") EXCEPT !.position = position]
    /\ UNCHANGED <<timers, netVars, histVars, menuVars, page, tourVars, calc>>

(***************************************************************************)
(* Tutorial and Step, src/src/static/ltk/widgets.py.  A step is given by   *)
(* its target element; every step uses the same trigger event.  overlay is *)
(* the index of the step whose overlay is in the document, -1 for none.    *)
(***************************************************************************)
NumSteps == 2       \* steps of the tutorial
MaxTourOps == 4     \* calls and trigger events after the construction

Targets == {1, 2}

\* A plausible slip: the overlay is shown whether or not the target is seen.
StepShowsAlways(t, target) == TRUE

\* Step.show(), its test: the target widget is(":visible")
StepShows(t, target) == target \in t.visible

\* A plausible slip: next() moves on while index <= len(steps).
NextMovesInclusive(t) == t.index <= Len(t.steps)

\* Tutorial.next(), its test: self.index < len(self.steps)
NextMoves(t) == t.index < Len(t.steps)

\* Tutorial.show(): nothing when the index is out of range; else Step.show()
\* (every overlay is removed and this step's one appended, when the target is
\* visible) and one more listener on the target.
TourShow(t) ==
    IF t.index < 0 \/ t.index >= Len(t.steps) THEN t
    ELSE LET target == t.steps[t.index + 1]
             s == IF StepShows(t, target)
                  THEN [t EXCEPT !.overlay = t.index,
                                 !.appended = t.appended + 1]
                  ELSE t
         IN  [s EXCEPT !.listeners =
                 Append(t.listeners, [target |-> target, index |-> t.index])]

\* Tutorial.close()
TourClose(t) == [t EXCEPT !.overlay = -1]

\* Tutorial.run()
TourRun(t) == TourShow([t EXCEPT !.index = 0])

\* Tutorial.previous()
TourPrevious(t) ==
    LET c == TourClose(t)
    IN  IF c.index > 0 THEN TourShow([c EXCEPT !.index = c.index - 1]) ELSE c

\* Tutorial.next()
TourNext(t) ==
    LET c == TourClose(t)
    IN  IF NextMoves(c) THEN TourShow([c EXCEPT !.index = c.index + 1]) ELSE c

\* Tutorial.event(index)
TourEvent(t, index) == IF index = t.index THEN TourNext(t) ELSE t

\* The trigger event on a target: the handlers registered on it when the
\* event occurs run in the order of their registration.
RECURSIVE Dispatch(_, _)
Dispatch(t, handlers) ==
    IF handlers = <<>> THEN t
    ELSE Dispatch(TourEvent(t, Head(handlers).index), Tail(handlers))

NoTour == [built |-> FALSE, steps |-> <<>>, index |-> 0, overlay |-> -1,
           appended |-> 0, listeners |-> <<>>, visible |-> {}]
NoTourOp == [op |-> "none", n |-> 0, before |-> NoTour, target |-> 0]
TourOp(op) == [NoTourOp EXCEPT !.op = op, !.n = tourOp.n + 1,
                               !.before = tour]

\* Tutorial(steps), over a page on which some of the targets are visible
NewTutorial ==
    /\ ~tour.built
    /\ \E steps \in [1..NumSteps -> Targets], visible \in SUBSET Targets :
          tour' = [NoTour EXCEPT !.built = TRUE, !.steps = steps,
                                 !.visible = visible]
    /\ tourOp' = [NoTourOp EXCEPT !.op = "new"]
    /\ UNCHANGED <<timers, netVars, histVars, menuVars, page, paneVars, calc>>

\* A target element is hidden or made visible by the page.
ToggleVisible ==
    /\ tour.built
    /\ \E target \in Targets :
          /\ tour' = [tour EXCEPT !.visible =
                        IF target \in tour.visible
                        THEN tour.visible \ {target}
                        ELSE tour.visible \cup {target}]
          /\ tourOp' = [NoTourOp EXCEPT !.op = "visibility",
                          !.n = tourOp.n, !.target = target]
    /\ UNCHANGED <<timers, netVars, histVars, menuVars, page, paneVars, calc>>

TourCall(op, t) ==
    /\ tour.built /\ tourOp.n < MaxTourOps
    /\ tour' = t
    /\ tourOp' = TourOp(op)
    /\ UNCHANGED <<timers, netVars, histVars, menuVars, page, paneVars, calc>>

TutorialRun == TourCall("run", TourRun(tour))
TutorialNext == TourCall("next", TourNext(tour))
TutorialPrevious == TourCall("previous", TourPrevious(tour))
TutorialClose == TourCall("close", TourClose(tour))

\* The trigger event occurs on a target element.
Trigger ==
    /\ tour.built /\ tourOp.n < MaxTourOps
    /\ \E target \in Targets :
          /\ tour' = Dispatch(tour,
                SelectSeq(tour.listeners, LAMBDA l : l.target = target))
          /\ tourOp' = [TourOp("trigger") EXCEPT !.target = target]
    /\ UNCHANGED <<timers, netVars, histVars, menuVars, page, paneVars, calc>>

(***************************************************************************)
(* Cell keys, src/src/static/api.py.                                       *)
(***************************************************************************)
MaxLetters == 2     \* letters of a key given to get_col_row_from_key
MaxDigits == 2      \* digits of a key given to get_col_row_from_key
MaxCol == 703       \* columns given to get_column_name run from -1 to MaxCol
MaxRow == 11        \* rows given to get_key_from_col_row run from 0 to MaxRow

IsUpper(c) == \E i \in 1..26 : UpperLetters[i] = c
\* ord(c) - ord("A") + 1
LetterVal(c) == CHOOSE i \in 1..26 : UpperLetters[i] = c

\* A plausible slip: the letters are counted from 0.
GetColRowFromKeyZeroBased(key) ==
    LET RECURSIVE Scan(_, _, _)
        Scan(i, col, row) ==
            IF i > Len(key) THEN [col |-> col, row |-> row]
            ELSE IF IsDigit(key[i])
                 THEN Scan(i + 1, col, row * 10 + DigitVal(key[i]))
                 ELSE Scan(i + 1, col * 26 + LetterVal(key[i]) - 1, row)
    IN  Scan(1, 0, 0)

\* get_col_row_from_key(key), for a key of capital letters and digits
GetColRowFromKey(key) ==
    LET RECURSIVE Scan(_, _, _)
        Scan(i, col, row) ==
            IF i > Len(key) THEN [col |-> col, row |-> row]
            ELSE IF IsDigit(key[i])
                 THEN Scan(i + 1, col, row * 10 + DigitVal(key[i]))
                 ELSE Scan(i + 1, col * 26 + LetterVal(key[i]), row)
    IN  Scan(1, 0, 0)

\* A plausible slip: plain base 26, divmod(col, 26), with A as the digit 0.
RECURSIVE GetColumnNamePlain(_)
GetColumnNamePlain(col) ==
    IF col > 0
    THEN GetColumnNamePlain(col \div 26) \o <<UpperLetters[(col % 26) + 1]>>
    ELSE <<>>

\* get_column_name(col): while col > 0, divmod(col - 1, 26) and the letter
\* of the remainder put in front.
RECURSIVE GetColumnName(_)
GetColumnName(col) ==
    IF col > 0
    THEN GetColumnName((col - 1) \div 26)
         \o <<UpperLetters[((col - 1) % 26) + 1]>>
    ELSE <<>>

\* get_key_from_col_row(col, row), for a row >= 0
GetKeyFromColRow(col, row) == GetColumnName(col) \o IntText(row)

\* re.match of ^[A-Z]+[0-9]+$
IsCellReference(s) ==
    \E k \in 1..(Len(s) - 1) :
       /\ \A i \in 1..k : IsUpper(s[i])
       /\ \A i \in (k + 1)..Len(s) : IsDigit(s[i])

\* The texts of 1..n characters over an alphabet
RECURSIVE Texts(_, _)
Texts(alphabet, n) ==
    IF n = 0 THEN {<<>>}
    ELSE LET shorter == Texts(alphabet, n - 1)
         IN  shorter \cup {Append(t, c) : t \in shorter, c \in alphabet}
KeyInputs ==
    {l \o d : l \in Texts({"A", "B", "Z"}, MaxLetters) \ {<<>>},
              d \in Texts({"0", "1", "9"}, MaxDigits) \ {<<>>}}

\* Each behaviour of SpecApi is one call of one function, on one input.
NoCalc == [fn |-> "none", arg |-> <<>>, out |-> <<>>]

\* get_col_row_from_key(key) is called
CallGetColRowFromKey ==
    /\ calc = NoCalc
    /\ \E key \in KeyInputs :
          calc' = [fn |-> "get_col_row_from_key", arg |-> key,
                   out |-> GetColRowFromKey(key)]
    /\ UNCHANGED <<timers, netVars, histVars, menuVars, page, paneVars, tourVars>>

\* get_key_from_col_row(col, row) is called
CallGetKeyFromColRow ==
    /\ calc = NoCalc
    /\ \E col \in (-1)..MaxCol, row \in 0..MaxRow :
          calc' = [fn |-> "get_key_from_col_row",
                   arg |-> [col |-> col, row |-> row],
                   out |-> GetKeyFromColRow(col, row)]
    /\ UNCHANGED <<timers, netVars, histVars, menuVars, page, paneVars, tourVars>>

(***************************************************************************)
(* Scripts, src/src/static/api.py.  ast.parse is taken as given: for       *)
(* find_inputs a script is the sequence of the Name and Constant nodes of  *)
(* its tree, or a text that does not parse; for intercept_last_expression  *)
(* it is a sequence of lines, each a sequence of simple statements that    *)
(* are separated by semicolons, with the value each one evaluates to.      *)
(***************************************************************************)
MaxNodes == 2       \* Name and Constant nodes of a script
MaxLines == 2       \* lines of a script
MaxStmts == 2       \* statements on one line

\* re.match of ^[A-Z]+[0-9]+ *: *[A-Z]+[0-9]+$
IsCellRangeReference(s) ==
    \E i \in 2..(Len(s) - 1) :
       LET left == SubSeq(s, 1, i - 1)
           right == SubSeq(s, i + 1, Len(s))
       IN  /\ s[i] = ":"
           /\ Head(left) # " " /\ IsCellReference(Strip(left))
           /\ right[Len(right)] # " " /\ IsCellReference(Strip(right))

\* InputFinder.visit_Constant, the keys it adds for a range: split at the
\* colon, strip, and every column and row from the start's to the end's.
RangeKeys(value) ==
    LET i == CHOOSE i \in 1..Len(value) : value[i] = ":"
        start == GetColRowFromKey(Strip(SubSeq(value, 1, i - 1)))
        end == GetColRowFromKey(Strip(SubSeq(value, i + 1, Len(value))))
        keys == {GetKeyFromColRow(col, row) :
                    col \in start.col..end.col, row \in start.row..end.row}
    IN  {k \in keys : IsCellReference(k)}

\* A plausible slip: every name counts, whatever its context.
NameIsInputAnyContext(node) == IsCellReference(node.text)

\* InputFinder.visit_Name, its tests
NameIsInput(node) == node.ctx = "Load" /\ IsCellReference(node.text)

\* find_inputs(script), the elements of the list it returns
FindInputs(script) ==
    IF ~script.parses THEN {}
    ELSE UNION { IF script.nodes[i].kind = "Name"
                 THEN IF NameIsInput(script.nodes[i])
                      THEN {script.nodes[i].text} ELSE {}
                 ELSE IF script.nodes[i].str
                         /\ IsCellRangeReference(script.nodes[i].text)
                      THEN RangeKeys(script.nodes[i].text) ELSE {}
               : i \in 1..Len(script.nodes) }

Name(text, ctx) == [kind |-> "Name", text |-> text, ctx |-> ctx, str |-> FALSE]
Constant(text, str) ==
    [kind |-> "Constant", text |-> text, ctx |-> "", str |-> str]
NodeInputs ==
    { Name(<<"A", "1">>, "Load"), Name(<<"A", "1">>, "Store"),
      Name(<<"B", "2">>, "Load"), Name(<<"x">>, "Load"),
      Constant(<<"A", "1", ":", "A", "3">>, TRUE),
      Constant(<<"A", "1", " ", ":", " ", "B", "2">>, TRUE),
      Constant(<<"B", "2", ":", "A", "1">>, TRUE),
      Constant(<<"A", "1">>, TRUE), Constant(<<"1", "2">>, FALSE) }
ScriptInputs ==
    {[parses |-> FALSE, nodes |-> <<>>]} \cup
    {[parses |-> TRUE, nodes |-> n] : n \in Texts(NodeInputs, MaxNodes)}

\* find_inputs(script) is called
CallFindInputs ==
    /\ calc = NoCalc
    /\ \E script \in ScriptInputs :
          calc' = [fn |-> "find_inputs", arg |-> script,
                   out |-> FindInputs(script)]
    /\ UNCHANGED <<timers, netVars, histVars, menuVars, page, paneVars, tourVars>>

\* The statements of the model: a bare expression, an assignment, and any
\* other statement (import, del, augmented assignment ...).  value is what
\* the statement evaluates to, 0 standing for None.  A line without a
\* statement is a blank line.
Statements ==
    { [kind |-> "Expr", value |-> 1], [kind |-> "Assign", value |-> 2],
      [kind |-> "Other", value |-> 0] }
LineInputs == Texts(Texts(Statements, MaxStmts), MaxLines) \ {<<>>}
EmptyText == << <<>> >>
Plain(line) == [prefix |-> FALSE, stmts |-> line]
NoneLine == [prefix |-> TRUE, stmts |-> <<[kind |-> "Expr", value |-> 0]>>]

\* intercept_last_expression(script): the lines of the text it returns, a
\* line marked prefix being "_ = " followed by the line; ok is FALSE when
\* tree.body[-1] raises IndexError.
InterceptLastExpression(lines) ==
    LET coded == {i \in 1..Len(lines) : lines[i] # <<>>}
        lineno == CHOOSE i \in coded : \A j \in coded : j <= i
        last == lines[lineno][Len(lines[lineno])]
        plain == [i \in 1..Len(lines) |-> Plain(lines[i])]
    IN  IF lines = EmptyText THEN [ok |-> TRUE, lines |-> plain]
        ELSE IF coded = {} THEN [ok |-> FALSE, lines |-> <<>>]
        ELSE IF last.kind \in {"Expr", "Assign"}
             THEN [ok |-> TRUE,
                   lines |-> [plain EXCEPT ![lineno].prefix = TRUE]]
             ELSE [ok |-> TRUE, lines |-> Append(plain, NoneLine)]

\* Running the text returned: the line with the prefix assigns to _ the
\* value of the first statement on it when that is an expression or an
\* assignment (_ = a; b and _ = x = 1; b), and is a syntax error otherwise.
RunSentinel(lines) ==
    LET marked == {i \in 1..Len(lines) : lines[i].prefix}
        first == lines[CHOOSE i \in marked : TRUE].stmts[1]
    IN  IF marked = {} THEN [ok |-> TRUE, set |-> FALSE, value |-> 0]
        ELSE IF first.kind \in {"Expr", "Assign"}
             THEN [ok |-> TRUE, set |-> TRUE, value |-> first.value]
             ELSE [ok |-> FALSE, set |-> FALSE, value |-> 0]

\* intercept_last_expression(script) is called
CallInterceptLastExpression ==
    /\ calc = NoCalc
    /\ \E lines \in LineInputs :
          calc' = [fn |-> "intercept_last_expression", arg |-> lines,
                   out |-> InterceptLastExpression(lines)]
    /\ UNCHANGED <<timers, netVars, histVars, menuVars, page, paneVars, tourVars>>

(***************************************************************************)
(* Further functions of src/src/static/api.py.                             *)
(***************************************************************************)
MaxText == 10       \* characters of a text given to shorten
MaxLength == 6      \* lengths given to shorten run from 0 to MaxLength

\* shorten(s, length): s[:length - 3], and "..." when s[length - 3:] is not
\* empty; a negative slice index counts from the end of s.
Shorten(s, length) ==
    LET k == length - 3
        cut == IF k >= 0
               THEN (IF k < Len(s) THEN k ELSE Len(s))
               ELSE (IF Len(s) + k > 0 THEN Len(s) + k ELSE 0)
    IN  SubSeq(s, 1, cut)
        \o (IF SubSeq(s, cut + 1, Len(s)) # <<>> THEN <<".", ".", ".">>
            ELSE <<>>)

\* shorten(s, length) is called
CallShorten ==
    /\ calc = NoCalc
    /\ \E n \in 0..MaxText, length \in 0..MaxLength :
          LET s == SubSeq(LowerLetters, 1, n)
          IN  calc' = [fn |-> "shorten", arg |-> [s |-> s, length |-> length],
                       out |-> Shorten(s, length)]
    /\ UNCHANGED <<timers, netVars, histVars, menuVars, page, paneVars, tourVars>>

\* A plausible slip: the loop without the initial index -= 1.
IndexToColNoDecrement(index) ==
    LET RECURSIVE Loop(_, _)
        Loop(i, col) ==
            IF i >= 0
            THEN Loop((i \div 26) - 1, <<UpperLetters[(i % 26) + 1]>> \o col)
            ELSE col
    IN  Loop(index, <<>>)

\* index_to_col(index): index -= 1, then while index >= 0 the letter of
\* index % 26 is put in front and index = index // 26 - 1.
IndexToCol(index) ==
    LET RECURSIVE Loop(_, _)
        Loop(i, col) ==
            IF i >= 0
            THEN Loop((i \div 26) - 1, <<UpperLetters[(i % 26) + 1]>> \o col)
            ELSE col
    IN  Loop(index - 1, <<>>)

\* index_to_col(index) is called
CallIndexToCol ==
    /\ calc = NoCalc
    /\ \E index \in (-1)..MaxCol :
          calc' = [fn |-> "index_to_col", arg |-> [index |-> index],
                   out |-> IndexToCol(index)]
    /\ UNCHANGED <<timers, netVars, histVars, menuVars, page, paneVars, tourVars>>

(***************************************************************************)
(* PySheets.sheet, src/src/static/api.py.  The inputs of a facade are a    *)
(* mapping from cell keys to texts, or were not given.  pandas is taken as *)
(* given: DataFrame.from_dict returns a frame with the columns of the      *)
(* dictionary in insertion order when they have the same length, and       *)
(* raises otherwise.                                                       *)
(***************************************************************************)
MaxSheetCol == 2    \* the cells of a sheet lie in columns 1..MaxSheetCol
\* the keys of the cells of the sheet, rows 1 and 2
SheetKeys ==
    {GetKeyFromColRow(c, r) : c \in 1..MaxSheetCol, r \in 1..2}

\* PySheets(inputs=...): a facade built without inputs, and the facades
\* whose inputs give some cells of the sheet the text "h" or "v"
Facades ==
    {[given |-> FALSE, cells |-> <<>>]} \cup
    {[given |-> TRUE, cells |-> m] :
        m \in UNION {[D -> {<<"h">>, <<"v">>}] : D \in SUBSET SheetKeys}}

\* sheet(selection, headers) on a facade built with the given inputs
Sheet(inputs, selection, headers) ==
    LET colon == CHOOSE i \in 1..Len(selection) : selection[i] = ":"
        start == GetColRowFromKey(SubSeq(selection, 1, colon - 1))
        end == GetColRowFromKey(SubSeq(selection, colon + 1, Len(selection)))
        \* self._inputs = inputs or []: a list unless a non-empty mapping
        isMapping == inputs.given /\ DOMAIN inputs.cells # {}
        R == IF end.row >= start.row THEN end.row - start.row + 1 ELSE 0
        InputsGet(key) ==
            IF key \in DOMAIN inputs.cells THEN inputs.cells[key] ELSE <<>>
        Values(col) ==
            [k \in 1..R |-> InputsGet(IndexToCol(col)
                                      \o IntText(start.row + k - 1))]
        Header(col) ==
            IF headers THEN Values(col)[1]
            ELSE <<"c", "o", "l", "-">> \o IntText(col)
        Column(col) ==
            [header |-> Header(col),
             values |-> IF headers THEN Tail(Values(col)) ELSE Values(col)]
        \* data[header] = values
        SetItemOf(data, c) ==
            IF \E i \in 1..Len(data) : data[i].header = c.header
            THEN [i \in 1..Len(data) |->
                     IF data[i].header = c.header THEN c ELSE data[i]]
            ELSE Append(data, c)
        RECURSIVE Loop(_, _)
        Loop(col, data) ==
            IF col > end.col THEN data
            ELSE Loop(col + 1, SetItemOf(data, Column(col)))
        \* list.get does not exist; pop(0) of an empty list
        raises ==
            /\ start.col <= end.col
            /\ \/ R >= 1 /\ ~isMapping
               \/ R = 0 /\ headers
        data == Loop(start.col, <<>>)
        sameLength ==
            \A i, j \in 1..Len(data) :
               Len(data[i].values) = Len(data[j].values)
    IN  IF raises \/ ~sameLength THEN [kind |-> "raises", columns |-> <<>>]
        ELSE [kind |-> "frame", columns |-> data]

\* PySheets(inputs=inputs).sheet(selection, headers) is called
CallSheet ==
    /\ calc = NoCalc
    /\ \E inputs \in Facades, start \in SheetKeys, end \in SheetKeys,
          headers \in BOOLEAN :
          LET selection == start \o <<":">> \o end
          IN  calc' = [fn |-> "sheet",
                       arg |-> [inputs |-> inputs, selection |-> selection,
                                headers |-> headers],
                       out |-> Sheet(inputs, selection, headers)]
    /\ UNCHANGED <<timers, netVars, histVars, menuVars, page, paneVars, tourVars>>

(***************************************************************************)
(* PySheets.load_sheet, src/src/static/api.py.  urlopen and the pandas     *)
(* parsers are taken as given: each either succeeds ("ok") or raises an    *)
(* exception whose text is the outcome.  The result records the calls made *)
(* in order, the parser whose frame is returned and the message raised.    *)
(***************************************************************************)
\* A plausible slip: delimited text is tried first, the workbook second.
LoadSheetCsvFirst(fetch, excel, decode, csv) ==
    IF fetch # "ok"
    THEN [kind |-> "raises", ran |-> <<"urlopen">>, parser |-> "none",
          message |-> <<"Cannot load url: ", fetch>>]
    ELSE IF decode = "ok" /\ csv = "ok"
    THEN [kind |-> "frame", ran |-> <<"urlopen", "decode", "read_csv">>,
          parser |-> "read_csv", message |-> <<>>]
    ELSE LET ran == IF decode # "ok" THEN <<"urlopen", "decode">>
                    ELSE <<"urlopen", "decode", "read_csv">>
             e2 == IF decode # "ok" THEN decode ELSE csv
         IN  IF excel = "ok"
             THEN [kind |-> "frame", ran |-> Append(ran, "read_excel"),
                   parser |-> "read_excel", message |-> <<>>]
             ELSE [kind |-> "raises", ran |-> Append(ran, "read_excel"),
                   parser |-> "none",
                   message |-> <<"Cannot load as Excel (", excel,
                                 ") or CSV (", e2, ")">>]

\* load_sheet(url): urlopen(url).read(), then read_excel, and in its except
\* clause data.decode and read_csv.
LoadSheet(fetch, excel, decode, csv) ==
    IF fetch # "ok"
    THEN [kind |-> "raises", ran |-> <<"urlopen">>, parser |-> "none",
          message |-> <<"Cannot load url: ", fetch>>]
    ELSE IF excel = "ok"
    THEN [kind |-> "frame", ran |-> <<"urlopen", "read_excel">>,
          parser |-> "read_excel", message |-> <<>>]
    ELSE IF decode # "ok"
    THEN [kind |-> "raises", ran |-> <<"urlopen", "read_excel", "decode">>,
          parser |-> "none",
          message |-> <<"Cannot load as Excel (", excel,
                        ") or CSV (", decode, ")">>]
    ELSE IF csv = "ok"
    THEN [kind |-> "frame",
          ran |-> <<"urlopen", "read_excel", "decode", "read_csv">>,
          parser |-> "read_csv", message |-> <<>>]
    ELSE [kind |-> "raises",
          ran |-> <<"urlopen", "read_excel", "decode", "read_csv">>,
          parser |-> "none",
          message |-> <<"Cannot load as Excel (", excel,
                        ") or CSV (", csv, ")">>]

\* load_sheet(url) is called, with the outcomes the url leads to
CallLoadSheet ==
    /\ calc = NoCalc
    /\ \E fetch \in {"ok", "timed out", "bad format"},
          excel \in {"ok", "timed out", "bad format"},
          decode \in {"ok", "invalid start byte"},
          csv \in {"ok", "timed out", "bad format"} :
          calc' = [fn |-> "load_sheet",
                   arg |-> [fetch |-> fetch, excel |-> excel,
                            decode |-> decode, csv |-> csv],
                   out |-> LoadSheet(fetch, excel, decode, csv)]
    /\ UNCHANGED <<timers, netVars, histVars, menuVars, page, paneVars, tourVars>>

(***************************************************************************)
(* Nested split panes, src/src/static/ltk/widgets.py.  A nesting is a      *)
(* sequence of panes: pane 1 is the outermost, every other pane is the     *)
(* first or the last widget of an earlier pane; a slot that holds no pane  *)
(* holds a plain widget, whose id is no pane's.  The element of a pane has *)
(* the id split-<key>.                                                     *)
(***************************************************************************)
MaxPanes == 3       \* split panes in one nesting

\* SplitPane(first, last, key), applied n times: the nestings of n panes,
\* each new pane put into a slot that holds no pane yet
RECURSIVE Nestings(_)
Nestings(n) ==
    LET NestKeys == {"split-a", "split-b", "split-c", "split-d"}
        FreeSlots(ps) ==
            {sl \in (1..Len(ps)) \X {"first", "last"} :
                \A i \in 1..Len(ps) :
                   ~(ps[i].parent = sl[1] /\ ps[i].slot = sl[2])}
    IN  IF n = 1
        THEN {<<[key |-> k, parent |-> 0, slot |-> "none"]>> :
                 k \in NestKeys}
        ELSE UNION {{Append(ps, [key |-> k, parent |-> sl[1],
                                 slot |-> sl[2]]) :
                        k \in NestKeys, sl \in FreeSlots(ps)} :
                    ps \in Nestings(n - 1)}

\* A plausible slip: the "layout" handler without the test of the target.
LayoutHandlesAny(key, id) == TRUE

\* The "layout" handler of a pane, its test: event.target.id == self.key
LayoutHandles(key, id) == id = key

\* layout() on pane p: the panes whose layout() runs, in order.  The event
\* triggered on a pane in the first or last slot reaches the handler of that
\* pane and then, bubbling, those of its ancestors.  A layout() entered
\* while the same pane's layout() is running repeats itself without end:
\* the calls made do not depend on the sizes; it is recorded as 0.
LayoutCalls(ps, p) ==
    LET \* the pane in a slot of pane x, 0 for a plain widget
        Child(qs, x, slot) ==
            IF \E j \in 1..Len(qs) : qs[j].parent = x /\ qs[j].slot = slot
            THEN CHOOSE j \in 1..Len(qs) :
                    qs[j].parent = x /\ qs[j].slot = slot
            ELSE 0
        RECURSIVE Layout(_, _)
        RECURSIVE Bubble(_, _, _)
        Trig(e, running) ==
            IF e = 0 THEN <<>> ELSE Bubble(e, e, running)
        Layout(x, running) ==
            <<x>> \o Trig(Child(ps, x, "first"), running \cup {x})
                  \o Trig(Child(ps, x, "last"), running \cup {x})
        Bubble(e, x, running) ==
            IF x = 0 THEN <<>>
            ELSE (IF LayoutHandles(ps[x].key, ps[e].key)
                  THEN (IF x \in running THEN <<0>> ELSE Layout(x, running))
                  ELSE <<>>)
                 \o Bubble(e, ps[x].parent, running)
    IN  Layout(p, {})

\* layout() is called on a pane of a nesting
CallLayout ==
    /\ calc = NoCalc
    /\ \E n \in 1..MaxPanes :
          \E ps \in Nestings(n), p \in 1..n :
             calc' = [fn |-> "layout", arg |-> [panes |-> ps, pane |-> p],
                      out |-> LayoutCalls(ps, p)]
    /\ UNCHANGED <<timers, netVars, histVars, menuVars, page, paneVars, tourVars>>

(***************************************************************************)
(* The sheet inventory, src/static/inventory.py.  main lists the elements  *)
(* of #main in document order (the card container is not listed itself):   *)
(* buttons and cards, each with its classes, its tab index (-1 for none)   *)
(* and, for a card of a sheet, the uid its handlers were created with ("" *)
(* for a card without handlers).  location is the URL the window was sent  *)
(* to, empty while the inventory is on screen.  The constants module is    *)
(* not part of the sources: its names stand for their values.  The click   *)
(* on "New Sheet" leads to menu.new_sheet(), outside the sources.          *)
(***************************************************************************)
MaxSheets == 2      \* sheets in a list given to show_sheet_list
MaxPageOps == 4     \* calls and events on the inventory in one behaviour

NoPage == [main |-> <<>>, message |-> "", location |-> <<>>,
           listing |-> FALSE, sheets |-> <<>>,
           op |-> [type |-> "none", at |-> 0, keyCode |-> 0], n |-> 0]

\* load_doc_with_packages(uid, runtime, packages): the URL it navigates to
LoadDocWithPackages(uid, runtime, packages) ==
    <<"/?", "SHEET_ID", "=", uid, "&", "PYTHON_RUNTIME", "=", runtime>>
    \o (IF packages # "" THEN <<"&", "PYTHON_PACKAGES", "=", packages>>
        ELSE <<>>)

\* A plausible slip: every key selects the card.
SelectsDocAnyKey(keyCode) == TRUE

\* select_doc(event), its test: event.keyCode == 13
SelectsDoc(keyCode) == keyCode = 13

\* list_sheets(): the "New Sheet" button and five placeholder cards are
\* appended to #main, and the list is requested from storage.  state.clear()
\* is outside the sources: it either leaves or empties #main.
ListSheets ==
    /\ page.n < MaxPageOps /\ page.location = <<>>
    /\ \E kept \in {page.main, <<>>} :
          page' = [page EXCEPT
             !.main = kept
                \o <<[kind |-> "button", temporary |-> TRUE,
                      tabindex |-> -1, uid |-> ""]>>
                \o [i \in 1..5 |-> [kind |-> "card", temporary |-> TRUE,
                                    tabindex |-> -1, uid |-> ""]],
             !.listing = TRUE,
             !.op = [type |-> "list_sheets", at |-> 0, keyCode |-> 0],
             !.n = @ + 1]
    /\ UNCHANGED <<timers, netVars, histVars, menuVars, paneVars, tourVars,
                   calc>>

\* show_sheet_list(sheets), the callback of storage.list_sheets: #main is
\* emptied, then holds the "New Sheet" button, prepended, and one card per
\* sheet, made by create_card(sheet.uid, index, "mpy", "", ...).
ShowSheetList ==
    /\ page.listing /\ page.n < MaxPageOps /\ page.location = <<>>
    /\ \E k \in 0..MaxSheets :
          \E sheets \in [1..k -> [uid : {"u1", "u2"}]] :
             page' = [page EXCEPT
                !.main =
                   <<[kind |-> "button", temporary |-> FALSE,
                      tabindex |-> -1, uid |-> ""]>>
                   \o [i \in 1..k |->
                          [kind |-> "card", temporary |-> FALSE,
                           tabindex |-> 1000 + (i - 1),
                           uid |-> sheets[i].uid]],
                !.message = "Select a sheet below or create a new one...",
                !.listing = FALSE,
                !.sheets = sheets,
                !.op = [type |-> "show_sheet_list", at |-> 0, keyCode |-> 0],
                !.n = @ + 1]
    /\ UNCHANGED <<timers, netVars, histVars, menuVars, paneVars, tourVars,
                   calc>>

\* A click on a card: the "click" handler of create_card, if the card has one
CardClick ==
    /\ page.n < MaxPageOps /\ page.location = <<>>
    /\ \E i \in 1..Len(page.main) :
          /\ page.main[i].kind = "card"
          /\ page' = [page EXCEPT
                !.location = IF page.main[i].uid # ""
                             THEN LoadDocWithPackages(page.main[i].uid,
                                                      "mpy", "")
                             ELSE @,
                !.op = [type |-> "click", at |-> i, keyCode |-> 0],
                !.n = @ + 1]
    /\ UNCHANGED <<timers, netVars, histVars, menuVars, paneVars, tourVars,
                   calc>>

\* A key is pressed on a card: select_doc, if the card has the handler
CardKeydown ==
    /\ page.n < MaxPageOps /\ page.location = <<>>
    /\ \E i \in 1..Len(page.main), keyCode \in {13, 27, 32} :
          /\ page.main[i].kind = "card"
          /\ page' = [page EXCEPT
                !.location = IF page.main[i].uid # "" /\ SelectsDoc(keyCode)
                             THEN LoadDocWithPackages(page.main[i].uid,
                                                      "mpy", "")
                             ELSE @,
                !.op = [type |-> "keydown", at |-> i, keyCode |-> keyCode],
                !.n = @ + 1]
    /\ UNCHANGED <<timers, netVars, histVars, menuVars, paneVars, tourVars,
                   calc>>

(***************************************************************************)
(* Claims about the network trampoline, checked under SpecNet.             *)
(***************************************************************************)
IsCall == netCall'.n = netCall.n + 1
Cached(u) == u \in DOMAIN network_cache
Age(u) == now - network_cache[u].when

\* C1 as written: a call that finds an entry younger than 60 seconds issues
\* no request and returns the cached body; two fetches of one URL within 60
\* seconds issue one request; a fetch 60 seconds or more after the last
\* successful one issues a new request and replaces the entry.
C1_AsWritten ==
    [][IsCall =>
        LET u == netCall'.url IN
        /\ (Cached(u) /\ Age(u) < 60) =>
               /\ requests' = requests
               /\ netCall'.body = network_cache[u].value
        /\ (netCall.n >= 1 /\ netCall.url = u /\ now - netCall.at < 60) =>
               Len(requests') - Len(requests) + (IF netCall.issued THEN 1 ELSE 0) <= 1
        /\ (Cached(u) /\ Age(u) >= 60) =>
               /\ requests' = Append(requests, u)
               /\ network_cache'[u].when = now
               /\ network_cache'[u].value = netCall'.body
      ]_vars

\* C1, amended: a call that finds an entry younger than 60 seconds issues no
\* request and returns the cached body (handed to the caller base64-decoded);
\* a fetch within 60 seconds of a fetch of the same URL that was answered
\* 200 issues no request; a fetch 60 seconds or more after the last successful
\* one issues a new request, and replaces the entry when the answer is 200.
C1_CacheWindow ==
    [][IsCall =>
        LET u == netCall'.url IN
        /\ (Cached(u) /\ Age(u) < 60) =>
               /\ requests' = requests
               /\ network_cache' = network_cache
               /\ netCall'.body = network_cache[u].value
               /\ netCall'.outcome = "ok" =>
                      netCall'.value = b64decode(network_cache[u].value).bytes
        /\ (/\ netCall.n >= 1 /\ netCall.url = u /\ now - netCall.at < 60
            /\ netCall.issued /\ netCall.status = 200) =>
               requests' = requests
        /\ (Cached(u) /\ Age(u) >= 60) =>
               /\ requests' = Append(requests, u)
               /\ netCall'.status = 200 =>
                      /\ network_cache'[u].when = now
                      /\ network_cache'[u].value = netCall'.body
        /\ ~Cached(u) => requests' = Append(requests, u)
      ]_vars

\* C1's case: three fetches of one URL, the second served from the cache and
\* the third, after the entry expired, fetched again and stored.
C1_Witness ==
    /\ netCall.n = 3
    /\ requests = <<netCall.url, netCall.url>>
    /\ netCall.issued /\ netCall.outcome = "ok"
    /\ now >= 60
    /\ network_cache[netCall.url].when = now

\* C2: a status other than 200 fails the call with an IOError carrying the
\* status and the request URL, and leaves the cache exactly as it was; no
\* stale body is returned in place of the error.
C2_ErrorLeavesCache ==
    [][(IsCall /\ netCall'.issued /\ netCall'.status # 200) =>
        /\ netCall'.outcome = "IOError"
        /\ netCall'.errStatus = netCall'.status
        /\ netCall'.errUrl = netCall'.url
        /\ netCall'.value = <<>> /\ netCall'.body = <<>>
        /\ network_cache' = network_cache
      ]_vars

\* C2's case: a failed refetch of a URL whose stale entry is still cached.
C2_Witness ==
    /\ netCall.outcome = "IOError"
    /\ netCall.errStatus = 404
    /\ netCall.url \in DOMAIN network_cache
    /\ now - network_cache[netCall.url].when >= 60

\* C3: every request issued for a non-empty input URL goes to the page's own
\* origin; an input not starting with "/" is requested as "/load?url=" plus
\* the percent-encoded input; the URL requested is the cache key.
C3_SameOriginRequests ==
    (netCall.n >= 1 /\ netCall.input # <<>>) =>
        /\ netCall.issued => SameOrigin(netCall.url)
        /\ netCall.input[1] # "/" =>
               netCall.url = LoadPrefix \o encodeURIComponent(netCall.input)
        /\ (netCall.issued /\ netCall.status = 200) =>
               /\ netCall.url \in DOMAIN network_cache
               /\ network_cache[netCall.url].value = netCall.body

(***************************************************************************)
(* Claims about the edit history, checked under SpecHistory (C7 under      *)
(* FairSpecHistory).                                                       *)
(***************************************************************************)
IsUndo == hop'.op = "undo" /\ hop'.undos = hop.undos + 1
Undoable == {i \in 1..Len(history) : history[i].ok}
LastUndoable == CHOOSE i \in Undoable : \A j \in Undoable : j <= i
FlushTasks(ts) == Cardinality(Pending(ts, "flush"))

\* C4: undo pops from the end, calls each popped edit's undo once, most
\* recent first, and stops at the first success: the log is then the prefix
\* before that edit, and exactly one flush has been scheduled.
C4_UndoStopsAtFirstSuccess ==
    [][(IsUndo /\ Undoable # {}) =>
        LET k == LastUndoable
            n == Len(history)
        IN  /\ history' = SubSeq(history, 1, k - 1)
            /\ hop'.called = [j \in 1..(n - k + 1) |-> history[n + 1 - j].id]
            /\ hop'.scheduled = 1
            /\ FlushTasks(timers') = 1
      ]_vars

\* C4's case: an undo that discarded a failing edit on its way to the one it
\* undid, leaving an earlier edit in the log.
C4_Witness ==
    /\ hop.op = "undo"
    /\ Len(hop.called) = 2
    /\ Len(history) = 1
    /\ hop.scheduled = 1

\* C5: on an empty log, or one whose every edit fails to undo, undo schedules
\* no flush, saves nothing, writes no status message and leaves the log empty.
C5_FailedUndoIsSilent ==
    [][(IsUndo /\ Undoable = {}) =>
        /\ history' = <<>>
        /\ hop'.called = [j \in 1..Len(history) |->
                            history[Len(history) + 1 - j].id]
        /\ hop'.scheduled = 0
        /\ timers' = timers
        /\ saves' = saves
        /\ console' = console /\ hop'.wrote = ""
      ]_vars

\* C5's case: an undo that tried two edits, both failing, and emptied the log.
C5_Witness ==
    /\ hop.op = "undo"
    /\ Len(hop.called) = 2
    /\ hop.scheduled = 0
    /\ history = <<>>

\* C6 as written: the add calls and successful undo calls made before the
\* pending flush runs give one flush, and every edit added before that tick
\* is in the log, in the order added, when the flush runs.
C6_AsWritten ==
    /\ [](FlushTasks(timers) <= 1)
    /\ [][hop'.op = "flush" /\ saves' # saves /\ hop.undosOk =>
            /\ saves' = saves + 1
            /\ unsaved \subseteq Ids(history')
            /\ \A i, j \in 1..Len(history') :
                  i < j => history'[i].id < history'[j].id
         ]_vars

\* C6, amended: the add and undo calls made before the pending flush runs
\* give one flush, that is one storage.save; every edit added before that
\* tick that no undo has popped is in the log, in the order added, when the
\* flush runs: only undo removes edits, and the flush leaves the log alone.
C6_OneFlushPerBatch ==
    /\ [](/\ FlushTasks(timers) = (IF hop.batch > 0 THEN 1 ELSE 0)
          /\ \A i, j \in 1..Len(history) :
                i < j => history[i].id < history[j].id)
    /\ [][/\ (hop'.op = "flush" /\ saves' # saves) =>
               /\ saves' = saves + 1
               /\ FlushTasks(timers') = 0
               /\ history' = history
          /\ hop'.op # "undo" =>
               /\ Len(history') >= Len(history)
               /\ SubSeq(history', 1, Len(history)) = history
         ]_vars

\* C6's case: three edits were added before the scheduler ran anything, and
\* the one pending flush then ran, saving once, with all three in the log.
C6_Witness ==
    /\ hop.op = "flush"
    /\ saves = 1
    /\ Len(history) = 3
    /\ FlushTasks(timers) = 0

\* C7: every add is eventually followed by a flush that saves, and every
\* flush by a run of show_status, for user and non-user edits alike, when
\* the scheduler runs every task that stays pending.
C7_AddLeadsToSave ==
    /\ (unsaved # {}) ~> (unsaved = {})
    /\ hop.statusDue ~> ~hop.statusDue

\* C7's case: a non-user edit was added, saved, and show_status has run.
C7_Witness ==
    /\ hop.op = "show_status"
    /\ saves >= 1
    /\ unsaved = {}
    /\ \E i \in 1..Len(history) : ~history[i].user

(***************************************************************************)
(* Claims about menus and shortcuts, checked under SpecMenu.               *)
(***************************************************************************)
IsNewItem == menuEvent'.type = "new_item"
IsKeyDown == menuEvent'.type = "keydown"
IsMouseEnter == menuEvent'.type = "mouseenter"
PopupTasks(ts) == {ts[i].arg : i \in Pending(ts, "popup_block")}

\* C8: the registry never holds Cmd+N, Cmd+T, Cmd+W or Cmd+Q: constructing a
\* MenuItem with one of them fails and leaves the registry unchanged, and any
\* other non-empty shortcut is registered to the new item.
C8_ReservedNeverRegistered ==
    /\ [](\A sc \in DOMAIN shortcuts :
             /\ sc \notin { <<"C","m","d","+","N">>, <<"C","m","d","+","T">>,
                            <<"C","m","d","+","W">>, <<"C","m","d","+","Q">> }
             /\ shortcuts[sc] \in items)
    /\ [][IsNewItem =>
            LET sc == menuEvent'.shortcut IN
            IF sc \in BROWSER_SHORTCUTS
            THEN menuEvent'.error /\ shortcuts' = shortcuts /\ items' = items
            ELSE /\ ~menuEvent'.error
                 /\ menuEvent'.item \in items'
                 /\ sc # <<>> =>
                       /\ sc \in DOMAIN shortcuts'
                       /\ shortcuts'[sc] = menuEvent'.item
                 /\ \A other \in DOMAIN shortcuts' :
                       other # sc =>
                          /\ other \in DOMAIN shortcuts
                          /\ shortcuts'[other] = shortcuts[other]
         ]_vars

\* C8's case: with a shortcut already registered, a MenuItem for Cmd+N was
\* refused.
C8_Witness ==
    /\ menuEvent.type = "new_item"
    /\ menuEvent.error
    /\ menuEvent.shortcut = Cmd \o <<"N">>
    /\ DOMAIN shortcuts # {}

\* C9: a keydown is mapped to "Cmd+" and the upper-cased key with metaKey, to
\* the upper-cased key without; when that text is registered the default is
\* prevented and the owning item's callback runs exactly once, otherwise no
\* item is selected and the default is not prevented.
C9_KeydownSelectsOwner ==
    [][(IsKeyDown /\ menuEvent'.hasKey) =>
        LET sc == (IF menuEvent'.metaKey THEN <<"C","m","d","+">> ELSE <<>>)
                  \o Upper(menuEvent'.key)
        IN  /\ menuEvent'.shortcut = sc
            /\ (menuEvent'.metaKey /\ menuEvent'.key = <<"k">>) =>
                  sc = <<"C","m","d","+","K">>
            /\ IF sc \in DOMAIN shortcuts
               THEN /\ menuEvent'.prevented
                    /\ menuEvent'.selected = <<shortcuts[sc]>>
               ELSE /\ ~menuEvent'.prevented
                    /\ menuEvent'.selected = <<>>
                    /\ display' = display
      ]_vars

\* C9's case: Cmd+K is registered and a keydown with metaKey and key "k"
\* selected its item.
C9_Witness ==
    /\ menuEvent.type = "keydown"
    /\ menuEvent.metaKey /\ menuEvent.key = <<"k">>
    /\ Len(menuEvent.selected) = 1
    /\ menuEvent.prevented

\* C10: when one menu's popup is open and the pointer enters another menu,
\* the open popup is closed and the entered menu's popup becomes the open
\* one; with no popup open, mouseenter opens nothing.
C10_HoverSwapsOpenMenu ==
    [][IsMouseEnter =>
        LET m == menuEvent'.menu
            open == {o \in Menus : display[o] = "block"}
        IN  /\ (\E o \in open : o # m) =>
                  /\ \A o \in open : o # m => display'[o] = "none"
                  /\ PopupTasks(timers') = {m}
            /\ open = {} =>
                  /\ display' = display
                  /\ timers' = timers
      ]_vars

\* C11: at most one popup is visible at any time: Popup.show hides every
\* popup and leaves exactly one pending task, for the popup shown, and when
\* the scheduler makes that popup visible every other popup is hidden; this
\* holds over every interleaving of shows, closes, body clicks and ticks.
C11_OnePopupVisible ==
    /\ [](Cardinality({m \in Menus : display[m] = "block"}) <= 1)
    /\ [][menuEvent'.type = "click_label" =>
            /\ \A m \in Menus : display'[m] = "none"
            /\ PopupTasks(timers') = {menuEvent'.menu}
         ]_vars
    /\ [][menuEvent'.type = "tick" =>
            /\ display'[menuEvent'.menu] = "block"
            /\ \A o \in Menus : o # menuEvent'.menu => display'[o] = "none"
         ]_vars

\* C11's case: the scheduler made the second menu's popup visible while the
\* first one, shown before it, is hidden.
C11_Witness ==
    /\ menuEvent.type = "tick"
    /\ menuEvent.menu = 2
    /\ display[2] = "block"
    /\ display[1] = "none"

(***************************************************************************)
(* Claims about SplitPane, checked under SpecPane.                         *)
(***************************************************************************)
IsLayout == paneOp'.op = "layout"
IsResize == paneOp'.op = "resize"
AtLeastOne(w) == IF w < 1 THEN 1 ELSE w
StoredRatio(st, key, r) ==
    /\ \E k \in PaneKeys : key = <<"s", "p", "l", "i", "t", "-">> \o k
    /\ key \in DOMAIN st
    /\ st[key] = FormatFloat(r)
    /\ r = Q(3, 10) => st[key] = <<"0", ".", "3">>
    /\ r = Q(1, 2) => st[key] = <<"0", ".", "5">>

\* C12 as the spec states it, with T and D the measured sizes of the
\* container and of the divider: layout() sets the first pane to r*T + D and
\* the last one to (1-r)*T - D, which sum to T (30 and 70 for T = 100,
\* D = 0, r = 0.3); it resets the divider's offset, keeps the ratio and
\* stores it under split-<key>.
C12_AsWritten ==
    [][IsLayout =>
        LET b == paneOp'.before
            T == Float(b.width)
            D == Float(b.divider)
        IN  /\ pane'.first = QAdd(QMul(b.ratio, T), D)
            /\ pane'.last = QSub(QMul(QSub(Float(1), b.ratio), T), D)
            /\ QAdd(pane'.first, pane'.last) = T
            /\ (b.width = 100 /\ b.divider = 0 /\ b.ratio = Q(3, 10)) =>
                  pane'.first = Float(30) /\ pane'.last = Float(70)
            /\ pane'.left = Float(0)
            /\ pane'.ratio = b.ratio
            /\ StoredRatio(localStorage', pane'.key, b.ratio)
      ]_vars

\* C12, amended: the same with T and D the sizes as get_size reports them,
\* the measured size but never less than 1 (31 and 69 for a container 100
\* wide, a divider 0 wide and r = 0.3); no other entry of the storage
\* changes.
C12_LayoutSizes ==
    [][IsLayout =>
        LET b == paneOp'.before
            T == Float(AtLeastOne(b.width))
            D == Float(AtLeastOne(b.divider))
        IN  /\ pane'.first = QAdd(QMul(b.ratio, T), D)
            /\ pane'.last = QSub(QMul(QSub(Float(1), b.ratio), T), D)
            /\ QAdd(pane'.first, pane'.last) = T
            /\ (b.width = 100 /\ b.divider = 0 /\ b.ratio = Q(3, 10)) =>
                  pane'.first = Float(31) /\ pane'.last = Float(69)
            /\ pane'.left = Float(0)
            /\ pane'.ratio = b.ratio
            /\ StoredRatio(localStorage', pane'.key, b.ratio)
            /\ \A k \in DOMAIN localStorage' :
                  k # pane'.key =>
                     k \in DOMAIN localStorage
                     /\ localStorage'[k] = localStorage[k]
      ]_vars

\* C12's case: a layout in the middle of a drag, container 100 wide, divider
\* 0 wide, ratio 0.3: the panes got 31 and 69 and the offset went back to 0.
C12_Witness ==
    /\ paneOp.op = "layout"
    /\ paneOp.before.width = 100 /\ paneOp.before.divider = 0
    /\ paneOp.before.left # Float(0)
    /\ pane.ratio = Q(3, 10)
    /\ pane.first = Float(31) /\ pane.last = Float(69)
    /\ pane.left = Float(0)

\* C13 as the spec states it: resize() sets the ratio to the divider's
\* position in the container over the container's size and lays out with
\* it (container 100, divider at 50: ratio 0.5, panes 50 and 50); a resize()
\* that follows a resize() with no drag between them keeps the ratio.
C13_AsWritten ==
    [][IsResize =>
        LET b == paneOp'.before
            T == Float(b.width)
        IN  /\ pane'.ratio = QDiv(paneOp'.position, T)
            /\ pane'.first = QAdd(QMul(pane'.ratio, T), Float(b.divider))
            /\ (b.width = 100 /\ paneOp'.position = Float(50)) =>
                  /\ pane'.ratio = Q(1, 2)
                  /\ pane'.first = Float(50) /\ pane'.last = Float(50)
            /\ paneOp.op = "resize" => pane'.ratio = pane.ratio
      ]_vars

\* C13, amended: resize() sets the ratio to the divider's position in the
\* container over T and lays out with it, T and the divider size D being
\* the sizes as get_size reports them, never less than 1 (container 100,
\* divider 0 wide and dragged to 50: ratio 0.5, panes 51 and 49); a resize()
\* that follows computes the ratio anew from the position the divider has
\* then.
C13_ResizeRatio ==
    [][IsResize =>
        LET b == paneOp'.before
            T == Float(AtLeastOne(b.width))
            D == Float(AtLeastOne(b.divider))
        IN  /\ paneOp'.position = QAdd(Rendered(b.first), b.left)
            /\ pane'.ratio = QDiv(paneOp'.position, T)
            /\ pane'.first = QAdd(QMul(pane'.ratio, T), D)
            /\ pane'.last = QSub(QMul(QSub(Float(1), pane'.ratio), T), D)
            /\ pane'.left = Float(0)
            /\ StoredRatio(localStorage', pane'.key, pane'.ratio)
            /\ (b.width = 100 /\ b.divider = 0
                  /\ paneOp'.position = Float(50)) =>
                  /\ pane'.ratio = Q(1, 2)
                  /\ pane'.first = Float(51) /\ pane'.last = Float(49)
      ]_vars

\* C13's case: the second of two resizes with no drag between them, in a
\* container 100 wide with a divider 0 wide; the first one had found the
\* divider at 50, the second one found it at 51.
C13_Witness ==
    /\ paneOp.op = "resize" /\ paneOp.prev = "resize"
    /\ paneOp.before.width = 100 /\ paneOp.before.divider = 0
    /\ paneOp.before.ratio = Q(1, 2)
    /\ paneOp.before.left = Float(0)
    /\ paneOp.position = Float(51)
    /\ pane.ratio = Q(51, 100)

\* C14: in every state of a constructed SplitPane the ratio is a number in
\* [0, 1], and restore() (the constructor's too) yields 0.5 when the stored
\* value is absent or is not the text of a number.
C14_RatioInUnitInterval ==
    pane.built =>
       /\ QLe(Float(0), pane.ratio) /\ QLe(pane.ratio, Float(1))
       /\ (paneOp.op \in {"new", "restore"}
             /\ (~paneOp.stored.present \/ ~ParseFloat(paneOp.stored.text).ok))
          => pane.ratio = Q(1, 2)

(***************************************************************************)
(* Claims about Tutorial, checked under SpecTour.                          *)
(***************************************************************************)
IsTourCall == tourOp'.n = tourOp.n + 1
ShowsHidden(op) ==
    /\ IsTourCall /\ tourOp'.op = op
    /\ tour'.index < Len(tour'.steps)
    /\ tour'.steps[tour'.index + 1] \notin tour'.visible

\* C15: the index stays within 0..len(steps) over every sequence of calls
\* and trigger events; previous() at 0 and next() at len(steps) leave it as
\* it is, close() never changes it, run() sets it to 0, and next() on the
\* last step moves it to len(steps) and leaves no overlay displayed.
C15_IndexInRange ==
    /\ [](tour.built => (0 <= tour.index /\ tour.index <= Len(tour.steps)))
    /\ [][IsTourCall =>
            LET op == tourOp'.op
                last == Len(tour.steps) - 1
            IN  /\ (op = "previous" /\ tour.index = 0) => tour'.index = 0
                /\ (op = "next" /\ tour.index = Len(tour.steps)) =>
                      tour'.index = tour.index
                /\ op = "close" => tour'.index = tour.index
                /\ op = "run" => tour'.index = 0
                /\ (op = "next" /\ tour.index = last) =>
                      tour'.index = last + 1 /\ tour'.overlay = -1
         ]_vars

\* C15's case: next() was called on the last step while its overlay was
\* displayed; the index is len(steps) and no overlay is displayed.
C15_Witness ==
    /\ tourOp.op = "next"
    /\ tourOp.before.index = Len(tour.steps) - 1
    /\ tourOp.before.overlay = tourOp.before.index
    /\ tour.index = Len(tour.steps)
    /\ tour.overlay = -1

\* C16: when run(), next() or previous() reaches show() for a step whose
\* target is not visible, no overlay is appended to the document, the index
\* stays the one show() was called with, and the call completes.
C16_HiddenTargetSkipped ==
    /\ [][ShowsHidden("run") =>
            /\ tour'.appended = tour.appended
            /\ tour'.overlay = tour.overlay
            /\ tour'.index = 0
         ]_vars
    /\ [][(ShowsHidden("next") /\ tour.index < Len(tour.steps)) =>
            /\ tour'.appended = tour.appended
            /\ tour'.overlay = -1
            /\ tour'.index = tour.index + 1
         ]_vars
    /\ [][(ShowsHidden("previous") /\ tour.index > 0) =>
            /\ tour'.appended = tour.appended
            /\ tour'.overlay = -1
            /\ tour'.index = tour.index - 1
         ]_vars

\* C16's case: with the first step's overlay displayed, next() reached a
\* second step whose target is hidden: nothing is displayed, the index is 1.
C16_Witness ==
    /\ tourOp.op = "next"
    /\ tourOp.before.overlay = 0 /\ tourOp.before.index = 0
    /\ tour.index = 1
    /\ tour.steps[2] \notin tour.visible
    /\ tour.overlay = -1
    /\ tour.appended = tourOp.before.appended

(***************************************************************************)
(* Claims about the functions of api.py, checked under SpecApi.            *)
(***************************************************************************)
RowText(key) == SelectSeq(key, IsDigit)
BackToKey(colrow) == GetKeyFromColRow(colrow.col, colrow.row)

\* C17 as the spec states it: for every key k that matches ^[A-Z]+[0-9]+$,
\* get_key_from_col_row(*get_col_row_from_key(k)) == k.
C17_AsWritten ==
    (calc.fn = "get_col_row_from_key" /\ IsCellReference(calc.arg)) =>
       BackToKey(calc.out) = calc.arg

\* C17, amended: the round trip gives back every key that matches the
\* pattern and whose row is written without a leading zero.
C17_KeyRoundTrip ==
    (calc.fn = "get_col_row_from_key" /\ IsCellReference(calc.arg)
       /\ (RowText(calc.arg) = <<"0">> \/ Head(RowText(calc.arg)) # "0")) =>
          BackToKey(calc.out) = calc.arg

\* C17's case: the key AZ19 was taken apart into column 52 and row 19, which
\* give AZ19 back.
C17_Witness ==
    /\ calc.fn = "get_col_row_from_key"
    /\ calc.arg = <<"A", "Z", "1", "9">>
    /\ calc.out = [col |-> 52, row |-> 19]
    /\ BackToKey(calc.out) = calc.arg

\* C18: get_column_name is the base-26 encoding without a zero digit (the
\* letters of the name, read as digits 1..26, give the column back; 1 -> A,
\* 26 -> Z, 27 -> AA, 52 -> AZ, 703 -> AAA), it ends for every column number
\* (with the empty name for a column below 1), and for c >= 1 and r >= 1
\* get_col_row_from_key(get_key_from_col_row(c, r)) == (c, r).
C18_ColumnNames ==
    calc.fn = "get_key_from_col_row" =>
       LET c == calc.arg.col
           r == calc.arg.row
           name == SelectSeq(calc.out, IsUpper)
           RECURSIVE Value(_)
           Value(s) == IF s = <<>> THEN 0
                       ELSE Value(SubSeq(s, 1, Len(s) - 1)) * 26
                            + LetterVal(s[Len(s)])
       IN  /\ calc.out = name \o IntText(r)
           /\ Len(name) <= Abs(c)
           /\ IF c >= 1 THEN Value(name) = c ELSE name = <<>>
           /\ c = 1 => name = <<"A">>
           /\ c = 26 => name = <<"Z">>
           /\ c = 27 => name = <<"A", "A">>
           /\ c = 52 => name = <<"A", "Z">>
           /\ c = 703 => name = <<"A", "A", "A">>
           /\ (c >= 1 /\ r >= 1) =>
                 GetColRowFromKey(calc.out) = [col |-> c, row |-> r]

\* C18's case: the key of column 703 and row 10 is AAA10.
C18_Witness ==
    /\ calc.fn = "get_key_from_col_row"
    /\ calc.arg = [col |-> 703, row |-> 10]
    /\ calc.out = <<"A", "A", "A", "1", "0">>

NamesRead(script) ==
    {script.nodes[i].text : i \in
        {j \in 1..Len(script.nodes) :
            /\ script.nodes[j].kind = "Name"
            /\ script.nodes[j].ctx = "Load"
            /\ IsCellReference(script.nodes[j].text)}}
Ranges(script) ==
    {script.nodes[i].text : i \in
        {j \in 1..Len(script.nodes) :
            /\ script.nodes[j].kind = "Constant"
            /\ script.nodes[j].str
            /\ IsCellRangeReference(script.nodes[j].text)}}
Corners(range) ==
    LET i == CHOOSE i \in 1..Len(range) : range[i] = ":"
    IN  <<GetColRowFromKey(SelectSeq(SubSeq(range, 1, i - 1),
                                     LAMBDA c : c # " ")),
          GetColRowFromKey(SelectSeq(SubSeq(range, i + 1, Len(range)),
                                     LAMBDA c : c # " "))>>
Lo(a, b) == IF a < b THEN a ELSE b
Hi(a, b) == IF a < b THEN b ELSE a

\* C19 as the spec states it: find_inputs returns exactly the names read
\* that match the cell pattern and, for each string constant that matches
\* the range pattern, every key of the closed rectangle between its two
\* corners, whichever corners they are; names that are only assigned are
\* left out, and a script that does not parse gives the empty set.
C19_AsWritten ==
    calc.fn = "find_inputs" =>
       IF ~calc.arg.parses THEN calc.out = {}
       ELSE calc.out = NamesRead(calc.arg) \cup UNION {
               LET c == Corners(range)
               IN  {GetKeyFromColRow(col, row) :
                      col \in Lo(c[1].col, c[2].col)..Hi(c[1].col, c[2].col),
                      row \in Lo(c[1].row, c[2].row)..Hi(c[1].row, c[2].row)}
               : range \in Ranges(calc.arg)}

\* C19, amended: the rectangle of a range runs from the first corner's
\* column and row to the second corner's; it is empty, and the range gives
\* no key, when the first corner's column or row is greater than the
\* second's.
C19_FindInputs ==
    calc.fn = "find_inputs" =>
       IF ~calc.arg.parses THEN calc.out = {}
       ELSE /\ calc.out = NamesRead(calc.arg) \cup UNION {
                  LET c == Corners(range)
                  IN  {GetKeyFromColRow(col, row) :
                         col \in c[1].col..c[2].col,
                         row \in c[1].row..c[2].row}
                  : range \in Ranges(calc.arg)}
            /\ calc.arg.nodes = <<Name(<<"B", "2">>, "Load"),
                                  Constant(<<"A", "1", ":", "A", "3">>, TRUE)>>
               => calc.out = {<<"A", "1">>, <<"A", "2">>, <<"A", "3">>,
                              <<"B", "2">>}
            /\ calc.arg.nodes = <<Name(<<"A", "1">>, "Store")>>
               => calc.out = {}

\* C19's case: a script that assigns A1 and holds the range "A1 : B2" gave
\* the four keys of the rectangle.
C19_Witness ==
    /\ calc.fn = "find_inputs"
    /\ calc.arg.nodes = <<Name(<<"A", "1">>, "Store"),
                          Constant(<<"A", "1", " ", ":", " ", "B", "2">>,
                                   TRUE)>>
    /\ calc.out = {<<"A", "1">>, <<"A", "2">>, <<"B", "1">>, <<"B", "2">>}

\* C20: for every script but the empty one, intercept_last_expression
\* returns a text whose run leaves in _ the value of the script's last
\* statement when that is an expression or an assignment and None otherwise;
\* the text differs from the script in one line that got the prefix "_ = ",
\* or in one line "_ = None" added at the end; the empty script gives the
\* empty text.
C20_SentinelHoldsLastValue ==
    calc.fn = "intercept_last_expression" =>
       LET lines == calc.arg
           out == calc.out
           all == Flatten(lines)
           last == all[Len(all)]
           changed == {i \in 1..Len(lines) : out.lines[i] # Plain(lines[i])}
           run == RunSentinel(out.lines)
       IN  IF lines = EmptyText THEN out.ok /\ out.lines = <<Plain(<<>>)>>
           ELSE /\ out.ok
                /\ run.ok /\ run.set
                /\ all # <<>>
                /\ run.value = IF last.kind \in {"Expr", "Assign"}
                               THEN last.value ELSE 0
                /\ \/ /\ Len(out.lines) = Len(lines)
                      /\ \E i \in 1..Len(lines) :
                            /\ changed = {i}
                            /\ out.lines[i] =
                                  [prefix |-> TRUE, stmts |-> lines[i]]
                   \/ /\ Len(out.lines) = Len(lines) + 1
                      /\ changed = {}
                      /\ out.lines[Len(out.lines)] = NoneLine

\* C21: shorten(s, length) returns s itself when s has at most length
\* characters, and otherwise the first length - 3 characters of s followed
\* by "...", so that the result never has more than length characters
\* (shorten("abcdefghij", 5) == "ab...", shorten("ab", 5) == "ab").
C21_ShortenFits ==
    calc.fn = "shorten" =>
       LET s == calc.arg.s
           length == calc.arg.length
       IN  /\ Len(calc.out) <= length
           /\ IF Len(s) <= length THEN calc.out = s
              ELSE calc.out = SubSeq(s, 1, length - 3) \o <<".", ".", ".">>

\* C26: for every index >= 1, index_to_col(index) is the name that
\* get_column_name(index) gives, and both give the empty name for 0.
C26_SameColumnNames ==
    (calc.fn = "index_to_col" /\ calc.arg.index >= 0) =>
       /\ calc.out = GetColumnName(calc.arg.index)
       /\ calc.arg.index = 0 => (calc.out = <<>> /\ GetColumnName(0) = <<>>)

\* C26's case: both encoders name column 703 AAA, past two carries.
C26_Witness ==
    /\ calc.fn = "index_to_col"
    /\ calc.arg.index = 703
    /\ calc.out = <<"A", "A", "A">>
    /\ GetColumnName(703) = <<"A", "A", "A">>

\* The corners of the selection of the latest sheet() call, and whether it
\* spans at least one column and one row.
SheetStart ==
    GetColRowFromKey(SubSeq(calc.arg.selection, 1,
        (CHOOSE i \in 1..Len(calc.arg.selection) :
            calc.arg.selection[i] = ":") - 1))
SheetEnd ==
    GetColRowFromKey(SubSeq(calc.arg.selection,
        (CHOOSE i \in 1..Len(calc.arg.selection) :
            calc.arg.selection[i] = ":") + 1, Len(calc.arg.selection)))
IsSheet ==
    /\ calc.fn = "sheet"
    /\ SheetStart.col <= SheetEnd.col
    /\ SheetStart.row <= SheetEnd.row
\* the content of a cell as the claims read it: the empty text when missing
CellOf(col, row) ==
    IF GetKeyFromColRow(col, row) \in DOMAIN calc.arg.inputs.cells
    THEN calc.arg.inputs.cells[GetKeyFromColRow(col, row)] ELSE <<>>

\* C23: sheet(selection, headers) never raises because of incomplete data: a
\* cell of the range that is missing from the inputs reads as the empty
\* text, and when no frame can be assembled (as for a facade built without
\* inputs) the call returns "Error: Incomplete Data" instead of raising.
C23_NeverRaises ==
    IsSheet =>
       /\ calc.out.kind # "raises"
       /\ ~calc.arg.inputs.given => calc.out.kind = "error"
       /\ calc.out.kind = "frame" =>
             \A i \in 1..Len(calc.out.columns) :
                \A k \in 1..Len(calc.out.columns[i].values) :
                   calc.out.columns[i].values[k] \in {<<"h">>, <<"v">>, <<>>}

\* C30: for a range of C columns and R rows sheet() builds exactly C columns,
\* one per spreadsheet column and in column order: with headers the R - 1
\* values below the header cell, without headers the R values under the
\* header col-<n>, whatever the cells hold.
C30_OneColumnPerColumn ==
    (IsSheet /\ calc.arg.inputs.given /\ DOMAIN calc.arg.inputs.cells # {}) =>
       LET C == SheetEnd.col - SheetStart.col + 1
           R == SheetEnd.row - SheetStart.row + 1
           cols == calc.out.columns
       IN  /\ calc.out.kind = "frame"
           /\ Len(cols) = C
           /\ \A i \in 1..Len(cols) :
                 LET col == SheetStart.col + i - 1
                 IN  IF calc.arg.headers
                     THEN /\ cols[i].header = CellOf(col, SheetStart.row)
                          /\ cols[i].values =
                                [k \in 1..(R - 1) |->
                                    CellOf(col, SheetStart.row + k)]
                     ELSE /\ cols[i].header =
                                <<"c", "o", "l", "-">> \o IntText(col)
                          /\ cols[i].values =
                                [k \in 1..R |->
                                    CellOf(col, SheetStart.row + k - 1)]

\* the position of a call in the calls load_sheet made, 0 when not made
RanAt(name) ==
    IF \E i \in 1..Len(calc.out.ran) : calc.out.ran[i] = name
    THEN CHOOSE i \in 1..Len(calc.out.ran) : calc.out.ran[i] = name
    ELSE 0

\* C24: load_sheet tries the parsers in a fixed order: a fetch failure is
\* raised as a "cannot load" error naming the cause and no parser runs; the
\* workbook parser is tried first and, when it succeeds, delimited text is
\* never tried; delimited text is tried only after the workbook parser
\* failed; an error is raised only when both fail, and names both failures.
C24_ParserOrder ==
    calc.fn = "load_sheet" =>
       LET a == calc.arg
           out == calc.out
           e2 == IF a.decode # "ok" THEN a.decode ELSE a.csv
       IN  /\ a.fetch # "ok" =>
                /\ out.kind = "raises"
                /\ out.message = <<"Cannot load url: ", a.fetch>>
                /\ out.ran = <<"urlopen">>
           /\ a.fetch = "ok" =>
                /\ RanAt("read_excel") = 2
                /\ a.excel = "ok" =>
                      /\ out.kind = "frame" /\ out.parser = "read_excel"
                      /\ RanAt("decode") = 0 /\ RanAt("read_csv") = 0
                /\ (RanAt("decode") # 0 \/ RanAt("read_csv") # 0) =>
                      /\ a.excel # "ok"
                      /\ RanAt("decode") > RanAt("read_excel")
                      /\ RanAt("read_csv") # 0 =>
                            RanAt("read_csv") > RanAt("read_excel")
                /\ out.kind = "raises" <=> (a.excel # "ok" /\ e2 # "ok")
                /\ out.kind = "raises" =>
                      out.message = <<"Cannot load as Excel (", a.excel,
                                      ") or CSV (", e2, ")">>
                /\ (a.excel # "ok" /\ e2 = "ok") =>
                      out.kind = "frame" /\ out.parser = "read_csv"

\* C24's case: both parsers failed and the error names both failures.
C24_Witness ==
    /\ calc.fn = "load_sheet"
    /\ calc.arg = [fetch |-> "ok", excel |-> "bad format", decode |-> "ok",
                   csv |-> "timed out"]
    /\ calc.out.kind = "raises"
    /\ calc.out.ran = <<"urlopen", "read_excel", "decode", "read_csv">>
    /\ calc.out.message = <<"Cannot load as Excel (", "bad format",
                            ") or CSV (", "timed out", ")">>

\* C25: one occurrence of the trigger event on a target advances the tour
\* by at most one step, whatever run/next/previous calls came before (also
\* when they showed a step more than once, or steps with the same target).
C25_AtMostOneStepPerEvent ==
    tourOp.op = "trigger" =>
       \/ tour.index = tourOp.before.index
       \/ tour.index = tourOp.before.index + 1

\* C28: at most one step overlay is displayed, and a displayed overlay is
\* the one of steps[index], also when the current step's target is not
\* visible.
C28_OverlayOfCurrentStep ==
    tour.overlay # -1 => tour.overlay = tour.index

\* C27: "All changes have been saved." is never written while an edit that
\* add() added has not been persisted by a later storage.save, in every
\* interleaving of add calls, the flush task and the status task.
C27_SavedStatusIsTrue ==
    (hop.op = "show_status" /\ hop.wrote = "saved") => unsaved = {}

\* pane x lies inside pane a of the nesting of the latest layout() call
RECURSIVE NestedIn(_, _)
NestedIn(x, a) ==
    /\ x # 0
    /\ calc.arg.panes[x].parent # 0
    /\ \/ calc.arg.panes[x].parent = a
       \/ NestedIn(calc.arg.panes[x].parent, a)
DistinctKeys ==
    \A i, j \in 1..Len(calc.arg.panes) :
       i # j => calc.arg.panes[i].key # calc.arg.panes[j].key
LayoutEnds == \A i \in 1..Len(calc.out) : calc.out[i] # 0
OnlyNested ==
    \A i \in 2..Len(calc.out) :
       calc.out[i] # 0 => NestedIn(calc.out[i], calc.arg.pane)

\* C29 as stated: for any finite nesting a layout() call ends, and the
\* layout events it triggers re-run layout only on panes nested inside the
\* pane, never on the pane itself or on an ancestor.
C29_AsWritten ==
    calc.fn = "layout" => (LayoutEnds /\ OnlyNested)

\* C29, amended: when the keys of the panes of the nesting are pairwise
\* different, a layout() call ends, re-runs layout only on panes nested
\* inside the pane, and on each of them at most once.
C29_NestedLayoutEnds ==
    (calc.fn = "layout" /\ DistinctKeys) =>
       /\ LayoutEnds
       /\ OnlyNested
       /\ \A i, j \in 1..Len(calc.out) : calc.out[i] = calc.out[j] => i = j

\* C29's case: three panes with different keys nested in each other; the
\* layout of the outermost one lays out each of the three once.
C29_Witness ==
    /\ calc.fn = "layout"
    /\ DistinctKeys
    /\ Len(calc.arg.panes) = 3
    /\ calc.arg.panes[3].parent = 2
    /\ calc.arg.pane = 1
    /\ calc.out = <<1, 2, 3>>

\* the cards of #main, in document order; while page.listing holds, the
\* list requested by list_sheets has not been shown yet
Cards == SelectSeq(page.main, LAMBDA e : e.kind = "card")
UrlOf(uid) == <<"/?", "SHEET_ID", "=", uid, "&", "PYTHON_RUNTIME", "=", "mpy">>

\* C22: after show_sheet_list(sheets) with N sheets #main shows one "New
\* Sheet" button followed by exactly N cards in list order, card i (from 0)
\* with tab index 1000 + i, and no placeholder of list_sheets; with no sheet
\* only the button and the prompt message are shown; a click on card i, or
\* a keydown with key code 13 on it, navigates to the URL of sheets[i].uid,
\* and a keydown with another key code navigates nowhere.
C22_CardsOfSheets ==
    /\ (page.op.type # "none" /\ ~page.listing) =>
          /\ Len(page.main) = Len(page.sheets) + 1
          /\ page.main[1].kind = "button"
          /\ \A i \in 1..Len(page.main) : ~page.main[i].temporary
          /\ Len(Cards) = Len(page.sheets)
          /\ \A i \in 1..Len(page.sheets) :
                /\ page.main[i + 1].kind = "card"
                /\ page.main[i + 1].tabindex = 1000 + (i - 1)
                /\ page.main[i + 1].uid = page.sheets[i].uid
          /\ page.message = "Select a sheet below or create a new one..."
          /\ page.sheets = <<>> => Len(page.main) = 1
    /\ (page.op.type = "click" /\ ~page.listing) =>
          page.location = UrlOf(page.sheets[page.op.at - 1].uid)
    /\ (page.op.type = "keydown" /\ ~page.listing) =>
          page.location = IF page.op.keyCode = 13
                          THEN UrlOf(page.sheets[page.op.at - 1].uid)
                          ELSE <<>>

\* C22's case: two sheets are listed over the placeholders, and Enter on the
\* second card opens the second sheet.
C22_Witness ==
    /\ page.op = [type |-> "keydown", at |-> 3, keyCode |-> 13]
    /\ Len(page.sheets) = 2
    /\ page.sheets[1].uid # page.sheets[2].uid
    /\ page.main[3].tabindex = 1001
    /\ page.location = UrlOf(page.sheets[2].uid)

(***************************************************************************)
(* Initial state and specifications.                                       *)
(***************************************************************************)
Init ==
    /\ now = 0
    /\ network_cache = <<>>
    /\ requests = <<>>
    /\ netCall = NoCall
    /\ history = <<>>
    /\ timers = <<>>
    /\ saves = 0
    /\ unsaved = {}
    /\ console = "absent"
    /\ hop = NoOp
    /\ shortcuts = <<>>
    /\ items = {}
    /\ display = [m \in Menus |-> "none"]
    /\ openClass = {}
    /\ menuEvent = NoEvent
    /\ pane = NoPane
    /\ localStorage = <<>>
    /\ paneOp = NoPaneOp
    /\ tour = NoTour
    /\ tourOp = NoTourOp
    /\ calc = NoCalc
    /\ page = NoPage

NextNet == Load \/ Advance
SpecNet == Init /\ [][NextNet]_vars

NextHistory == Add \/ Undo \/ RunFlush \/ RunShowStatus \/ ConsoleChange
SpecHistory == Init /\ [][NextHistory]_vars

NextMenu ==
    \/ NewMenuItem \/ KeyDown \/ ClickLabel \/ MouseEnter \/ ClickItem
    \/ BodyClick \/ PopupClose \/ RunPopupShow
SpecMenu == Init /\ [][NextMenu]_vars

NextPane ==
    \/ StorageSet \/ NewSplitPane \/ PaneRestore \/ WindowResize
    \/ RunLayout \/ DragMove \/ DragStop
SpecPane == Init /\ [][NextPane]_vars

NextTour ==
    \/ NewTutorial \/ ToggleVisible \/ TutorialRun \/ TutorialNext
    \/ TutorialPrevious \/ TutorialClose \/ Trigger
SpecTour == Init /\ [][NextTour]_vars

NextApi ==
    \/ CallGetColRowFromKey \/ CallGetKeyFromColRow \/ CallFindInputs
    \/ CallInterceptLastExpression \/ CallShorten
    \/ CallIndexToCol \/ CallSheet \/ CallLoadSheet \/ CallLayout
SpecApi == Init /\ [][NextApi]_vars

NextInventory == ListSheets \/ ShowSheetList \/ CardClick \/ CardKeydown
SpecInventory == Init /\ [][NextInventory]_vars

\* The scheduler runs every task that stays pending.
FairSpecHistory ==
    SpecHistory /\ WF_vars(RunFlush) /\ WF_vars(RunShowStatus)

====
